---- MODULE Spec2Model ----
(***************************************************************************)
(* File-conversion gateway: the request handlers of app.py and the         *)
(* converters of converters.py, as a state machine over one worker.        *)
(* File names are strings handled character by character, so that the     *)
(* extension checks (rsplit, endswith, splitext, lower) are computed the   *)
(* way the code computes them.                                             *)
(***************************************************************************)
EXTENDS Integers, Sequences, FiniteSets, TLC

(***************************************************************************)
(* Bounds of the model.                                                    *)
(***************************************************************************)
\* uploads carried by one merge request
MaxFiles == 3
\* pages of one uploaded PDF
MaxPages == 2

\* working directories that a failed rmtree may leave behind
MaxOrphans == 1

(***************************************************************************)
(* Python string helpers.                                                  *)
(***************************************************************************)
NoneVal == "<None>"

Ch(s, i) == SubSeq(s, i, i)

UpperChars == {"A", "B", "C", "D", "E", "F", "G", "H", "I", "J", "K", "L", "M",
               "N", "O", "P", "Q", "R", "S", "T", "U", "V", "W", "X", "Y", "Z"}

\* str.lower() on one character
LowerCh(c) ==
    CASE c = "A" -> "a" [] c = "B" -> "b" [] c = "C" -> "c"
      [] c = "D" -> "d" [] c = "E" -> "e" [] c = "F" -> "f"
      [] c = "G" -> "g" [] c = "H" -> "h" [] c = "I" -> "i"
      [] c = "J" -> "j" [] c = "K" -> "k" [] c = "L" -> "l"
      [] c = "M" -> "m" [] c = "N" -> "n" [] c = "O" -> "o"
      [] c = "P" -> "p" [] c = "Q" -> "q" [] c = "R" -> "r"
      [] c = "S" -> "s" [] c = "T" -> "t" [] c = "U" -> "u"
      [] c = "V" -> "v" [] c = "W" -> "w" [] c = "X" -> "x"
      [] c = "Y" -> "y" [] c = "Z" -> "z" [] OTHER -> c

RECURSIVE lower(_)
lower(s) == IF s = "" THEN "" ELSE LowerCh(Head(s)) \o lower(Tail(s))

\* str.rfind(c): 1-based index of the last c, 0 when there is none
rfind(s, c) ==
    LET hits == {i \in 1..Len(s) : Ch(s, i) = c}
    IN  IF hits = {} THEN 0 ELSE CHOOSE i \in hits : \A j \in hits : j <= i

contains(s, c) == \E i \in 1..Len(s) : Ch(s, i) = c

endswith(s, suffix) ==
    /\ Len(suffix) <= Len(s)
    /\ SubSeq(s, Len(s) - Len(suffix) + 1, Len(s)) = suffix

\* filename.rsplit('.', 1)[1], for a filename that holds a dot
rsplit_ext(s) == SubSeq(s, rfind(s, ".") + 1, Len(s))

\* os.path.splitext(p): the extension starts at the last dot, unless that
\* dot is before the last separator or only dots precede it in the base name
splitext_cut(p) ==
    LET sepIndex == rfind(p, "/")
        dotIndex == rfind(p, ".")
    IN  IF /\ dotIndex > sepIndex
           /\ \E k \in (sepIndex + 1)..(dotIndex - 1) : Ch(p, k) # "."
        THEN dotIndex
        ELSE Len(p) + 1

splitext_root(p) == SubSeq(p, 1, splitext_cut(p) - 1)

splitext_ext(p) == SubSeq(p, splitext_cut(p), Len(p))

basename(p) == SubSeq(p, rfind(p, "/") + 1, Len(p))

(***************************************************************************)
(* The format registry (app.py).                                           *)
(***************************************************************************)
ImageExts == {"jpg", "jpeg", "png", "webp", "bmp"}

ALLOWED_EXTENSIONS_single_only ==
    [pdf_to_docx  |-> {"pdf"},
     docx_to_pdf  |-> {"docx"},
     doc_to_pdf   |-> {"doc"},
     pptx_to_pdf  |-> {"pptx"},
     pdf_to_txt   |-> {"pdf"},
     txt_to_pdf   |-> {"txt"},
     xlsx_to_csv  |-> {"xlsx", "xls"},
     csv_to_xlsx  |-> {"csv"},
     xlsx_to_pdf  |-> {"xlsx", "xls"},
     csv_to_pdf   |-> {"csv"},
     html_to_pdf  |-> {"html", "htm"},
     epub_to_pdf  |-> {"epub"},
     pdf_to_html  |-> {"pdf"},
     jpg_to_png   |-> {"jpg", "jpeg"},
     png_to_jpg   |-> {"png"},
     webp_to_jpg  |-> {"webp"},
     jpg_to_webp  |-> {"jpg", "jpeg"},
     image_to_pdf |-> ImageExts,
     pdf_to_png   |-> {"pdf"},
     bmp_to_png   |-> {"bmp"},
     mp3_to_wav   |-> {"mp3"},
     wav_to_mp3   |-> {"wav"},
     mp4_to_mp3   |-> {"mp4"},
     mp4_to_avi   |-> {"mp4"},
     avi_to_mp4   |-> {"avi"},
     mkv_to_mp4   |-> {"mkv"},
     mp4_to_webm  |-> {"mp4"},
     ogg_to_mp3   |-> {"ogg"},
     compress_pdf |-> {"pdf"}]

ALLOWED_EXTENSIONS ==
    [pdf_to_docx  |-> {"pdf"},
     docx_to_pdf  |-> {"docx"},
     doc_to_pdf   |-> {"doc"},
     pptx_to_pdf  |-> {"pptx"},
     pdf_to_txt   |-> {"pdf"},
     txt_to_pdf   |-> {"txt"},
     xlsx_to_csv  |-> {"xlsx", "xls"},
     csv_to_xlsx  |-> {"csv"},
     xlsx_to_pdf  |-> {"xlsx", "xls"},
     csv_to_pdf   |-> {"csv"},
     html_to_pdf  |-> {"html", "htm"},
     epub_to_pdf  |-> {"epub"},
     pdf_to_html  |-> {"pdf"},
     jpg_to_png   |-> {"jpg", "jpeg"},
     png_to_jpg   |-> {"png"},
     webp_to_jpg  |-> {"webp"},
     jpg_to_webp  |-> {"jpg", "jpeg"},
     image_to_pdf |-> ImageExts,
     pdf_to_png   |-> {"pdf"},
     bmp_to_png   |-> {"bmp"},
     mp3_to_wav   |-> {"mp3"},
     wav_to_mp3   |-> {"wav"},
     mp4_to_mp3   |-> {"mp4"},
     mp4_to_avi   |-> {"mp4"},
     avi_to_mp4   |-> {"avi"},
     mkv_to_mp4   |-> {"mkv"},
     mp4_to_webm  |-> {"mp4"},
     ogg_to_mp3   |-> {"ogg"},
     compress_pdf |-> {"pdf"},
     merge_pdfs   |-> {"pdf"},
     merge_images |-> ImageExts]

converters ==
    [pdf_to_docx  |-> "PDFToDOCXConverter",
     docx_to_pdf  |-> "DOCXToPDFConverter",
     doc_to_pdf   |-> "DOCToPDFConverter",
     pptx_to_pdf  |-> "PPTXToPDFConverter",
     pdf_to_txt   |-> "PDFToTXTConverter",
     txt_to_pdf   |-> "TXTToPDFConverter",
     xlsx_to_csv  |-> "XLSXToCSVConverter",
     csv_to_xlsx  |-> "CSVToXLSXConverter",
     xlsx_to_pdf  |-> "XLSXToPDFConverter",
     csv_to_pdf   |-> "CSVToPDFConverter",
     html_to_pdf  |-> "HTMLToPDFConverter",
     epub_to_pdf  |-> "EPUBToPDFConverter",
     pdf_to_html  |-> "PDFToHTMLConverter",
     jpg_to_png   |-> "JPGToPNGConverter",
     png_to_jpg   |-> "PNGToJPGConverter",
     webp_to_jpg  |-> "WEBPToJPGConverter",
     jpg_to_webp  |-> "JPGToWEBPConverter",
     image_to_pdf |-> "JPGToPDFConverter",
     pdf_to_png   |-> "PDFToPNGConverter",
     bmp_to_png   |-> "BMPToPNGConverter",
     mp3_to_wav   |-> "MP3ToWAVConverter",
     wav_to_mp3   |-> "WAVToMP3Converter",
     mp4_to_mp3   |-> "MP4ToMP3Converter",
     mp4_to_avi   |-> "MP4ToAVIConverter",
     avi_to_mp4   |-> "AVIToMP4Converter",
     mkv_to_mp4   |-> "MKVToMP4Converter",
     mp4_to_webm  |-> "MP4ToWEBMConverter",
     ogg_to_mp3   |-> "OGGToMP3Converter",
     compress_pdf |-> "CompressPDFConverter",
     merge_pdfs   |-> "MergePDFsConverter",
     merge_images |-> "MergeImagesConverter"]

ConversionTypes == DOMAIN converters

MergeTypes == {"merge_pdfs", "merge_images"}

SingleTypes == ConversionTypes \ MergeTypes

\* ALLOWED_EXTENSIONS.get(conversion_type, set())
AllowedGet(conversion_type) ==
    IF conversion_type \in DOMAIN ALLOWED_EXTENSIONS
    THEN ALLOWED_EXTENSIONS[conversion_type]
    ELSE {}

allowed_file_nodot(filename, conversion_type) ==
    LET extension == IF contains(filename, ".")
                     THEN lower(rsplit_ext(filename))
                     ELSE lower(filename)
    IN  extension \in AllowedGet(conversion_type)

allowed_file_case_sensitive(filename, conversion_type) ==
    IF ~contains(filename, ".")
    THEN FALSE
    ELSE rsplit_ext(filename) \in AllowedGet(conversion_type)

allowed_file(filename, conversion_type) ==
    IF ~contains(filename, ".")
    THEN FALSE
    ELSE lower(rsplit_ext(filename)) \in AllowedGet(conversion_type)

(***************************************************************************)
(* Validation of a request (app.py).  Each operator gives the message      *)
(* flashed by the first check that fails, or "ok".                         *)
(***************************************************************************)
MSG_NO_FILE == "No file selected"
MSG_INVALID_TYPE == "Invalid conversion type selected"
MSG_INVALID_FILE_TYPE == "Invalid file type for conversion"
MSG_PDF_MIN_FILES == "Please select at least 2 PDF files to merge"
MSG_PDF_NOT_PDF == "All files must be PDF format"
MSG_PDF_MIN_VALID == "Please select at least 2 valid PDF files to merge"
MSG_IMG_MIN_FILES == "Please select at least 2 image files to merge"
MSG_IMG_NOT_IMAGE == "Invalid file type. Only JPG, PNG, WEBP, BMP images are supported."
MSG_IMG_MIN_VALID == "Please select at least 2 valid image files to merge"

\* `not conversion_type or conversion_type not in converters`
type_invalid(conversion_type) ==
    \/ conversion_type = NoneVal
    \/ conversion_type = ""
    \/ conversion_type \notin DOMAIN converters

validate_single_no_type_check(r) ==
    IF ~r.has_file THEN MSG_NO_FILE
    ELSE IF r.filename = "" THEN MSG_NO_FILE
    ELSE IF ~allowed_file(r.filename, r.conversion_type) THEN MSG_INVALID_FILE_TYPE
    ELSE "ok"

\* convert_file, the checks of a single-file request in the code's order
validate_single(r) ==
    IF ~r.has_file THEN MSG_NO_FILE
    ELSE IF r.filename = "" THEN MSG_NO_FILE
    ELSE IF type_invalid(r.conversion_type) THEN MSG_INVALID_TYPE
    ELSE IF ~allowed_file(r.filename, r.conversion_type) THEN MSG_INVALID_FILE_TYPE
    ELSE "ok"

NonEmptyNames(files) == SelectSeq(files, LAMBDA n : n # "")

pdf_name_ok(filename) == endswith(lower(filename), ".pdf")

image_allowed_extensions == {".jpg", ".jpeg", ".png", ".webp", ".bmp"}

image_name_ok(filename) == splitext_ext(lower(filename)) \in image_allowed_extensions

validate_pdf_merge_skip_bad(files) ==
    IF Len(files) < 2 THEN MSG_PDF_MIN_FILES
    ELSE IF Len(SelectSeq(files, LAMBDA n : n # "" /\ pdf_name_ok(n))) < 2
         THEN MSG_PDF_MIN_VALID
         ELSE "ok"

\* handle_pdf_merge, lines 227-245
validate_pdf_merge(files) ==
    IF Len(files) < 2 THEN MSG_PDF_MIN_FILES
    ELSE IF \E i \in 1..Len(files) : files[i] # "" /\ ~pdf_name_ok(files[i])
         THEN MSG_PDF_NOT_PDF
         ELSE IF Len(NonEmptyNames(files)) < 2 THEN MSG_PDF_MIN_VALID
              ELSE "ok"

validate_image_merge_no_count(files) ==
    IF Len(files) < 2 THEN MSG_IMG_MIN_FILES
    ELSE IF \E i \in 1..Len(files) : files[i] # "" /\ ~image_name_ok(files[i])
         THEN MSG_IMG_NOT_IMAGE
         ELSE "ok"

\* handle_image_merge, lines 296-318
validate_image_merge(files) ==
    IF Len(files) < 2 THEN MSG_IMG_MIN_FILES
    ELSE IF \E i \in 1..Len(files) : files[i] # "" /\ ~image_name_ok(files[i])
         THEN MSG_IMG_NOT_IMAGE
         ELSE IF Len(NonEmptyNames(files)) < 2 THEN MSG_IMG_MIN_VALID
              ELSE "ok"

\* the files a merge handler keeps: pdf_files / image_files
kept_files(files) == NonEmptyNames(files)

(***************************************************************************)
(* Names of the files a job writes into its working directory.             *)
(***************************************************************************)
RECURSIVE replace_sep(_)
\* filename.replace("/", " ")
replace_sep(s) ==
    IF s = "" THEN ""
    ELSE (IF Head(s) = "/" THEN " " ELSE Head(s)) \o replace_sep(Tail(s))

RECURSIVE lstrip(_, _)
lstrip(s, chars) ==
    IF s # "" /\ Head(s) \in chars THEN lstrip(Tail(s), chars) ELSE s

RECURSIVE rstrip(_, _)
rstrip(s, chars) ==
    IF s # "" /\ Ch(s, Len(s)) \in chars
    THEN rstrip(SubSeq(s, 1, Len(s) - 1), chars)
    ELSE s

strip(s, chars) == rstrip(lstrip(s, chars), chars)

RECURSIVE join_words(_)
\* "_".join(s.split()) on a string without leading or trailing blanks
join_words(s) ==
    IF s = "" THEN ""
    ELSE IF Head(s) = " "
         THEN "_" \o join_words(lstrip(s, {" "}))
         ELSE Head(s) \o join_words(Tail(s))

\* werkzeug.utils.secure_filename on names over letters, digits, '.', '_', '/'
secure_filename(filename) ==
    strip(join_words(strip(replace_sep(filename), {" "})), {".", "_"})

\* f"{i:02d}" for 1 <= i <= 9
two_digits(i) ==
    "0" \o (CASE i = 1 -> "1" [] i = 2 -> "2" [] i = 3 -> "3" [] i = 4 -> "4"
              [] i = 5 -> "5" [] i = 6 -> "6" [] i = 7 -> "7" [] i = 8 -> "8"
              [] OTHER -> "9")

\* the name under which convert_file saves the upload (line 175)
single_input_name(filename) == secure_filename(filename)

merge_input_name_plain(conversion_type, i, filename) == secure_filename(filename)

\* handle_pdf_merge line 254, handle_image_merge line 327
merge_input_name(conversion_type, i, filename) ==
    secure_filename((IF conversion_type = "merge_pdfs" THEN "input_" ELSE "image_")
                    \o two_digits(i) \o "_" \o filename)

\* the suffix each converter appends to the input's base name
OutputSuffix ==
    [PDFToDOCXConverter   |-> ".docx",
     DOCXToPDFConverter   |-> ".pdf",
     DOCToPDFConverter    |-> ".pdf",
     PPTXToPDFConverter   |-> ".pdf",
     PDFToTXTConverter    |-> ".txt",
     TXTToPDFConverter    |-> ".pdf",
     XLSXToCSVConverter   |-> ".csv",
     CSVToXLSXConverter   |-> ".xlsx",
     XLSXToPDFConverter   |-> ".pdf",
     CSVToPDFConverter    |-> ".pdf",
     HTMLToPDFConverter   |-> ".pdf",
     EPUBToPDFConverter   |-> ".pdf",
     PDFToHTMLConverter   |-> ".html",
     JPGToPNGConverter    |-> ".png",
     PNGToJPGConverter    |-> ".jpg",
     WEBPToJPGConverter   |-> ".jpg",
     JPGToWEBPConverter   |-> ".webp",
     JPGToPDFConverter    |-> ".pdf",
     PDFToPNGConverter    |-> "_pages.zip",
     BMPToPNGConverter    |-> ".png",
     MP3ToWAVConverter    |-> ".wav",
     WAVToMP3Converter    |-> ".mp3",
     MP4ToMP3Converter    |-> ".mp3",
     MP4ToAVIConverter    |-> ".avi",
     AVIToMP4Converter    |-> ".mp4",
     MKVToMP4Converter    |-> ".mp4",
     MP4ToWEBMConverter   |-> ".webm",
     OGGToMP3Converter    |-> ".mp3",
     CompressPDFConverter |-> "_compressed.pdf"]

output_name_keep_ext(class, input_name) == basename(input_name) \o OutputSuffix[class]

output_name_same_ext(class, input_name) ==
    splitext_root(basename(input_name)) \o splitext_ext(lower(basename(input_name)))

\* os.path.splitext(os.path.basename(input_path))[0] plus the suffix
output_name(class, input_name) ==
    splitext_root(basename(input_name)) \o OutputSuffix[class]

MERGED_DOCUMENT == "merged_document.pdf"

MERGED_IMAGES == "merged_images.pdf"

output_mimetype ==
    [PDFToDOCXConverter   |-> "application/vnd.openxmlformats-officedocument.wordprocessingml.document",
     DOCXToPDFConverter   |-> "application/pdf",
     DOCToPDFConverter    |-> "application/pdf",
     PPTXToPDFConverter   |-> "application/pdf",
     PDFToTXTConverter    |-> "text/plain",
     TXTToPDFConverter    |-> "application/pdf",
     XLSXToCSVConverter   |-> "text/csv",
     CSVToXLSXConverter   |-> "application/vnd.openxmlformats-officedocument.spreadsheetml.sheet",
     XLSXToPDFConverter   |-> "application/pdf",
     CSVToPDFConverter    |-> "application/pdf",
     HTMLToPDFConverter   |-> "application/pdf",
     EPUBToPDFConverter   |-> "application/pdf",
     PDFToHTMLConverter   |-> "text/html",
     JPGToPNGConverter    |-> "image/png",
     PNGToJPGConverter    |-> "image/jpeg",
     WEBPToJPGConverter   |-> "image/jpeg",
     JPGToWEBPConverter   |-> "image/webp",
     JPGToPDFConverter    |-> "application/pdf",
     PDFToPNGConverter    |-> "application/zip",
     BMPToPNGConverter    |-> "image/png",
     MP3ToWAVConverter    |-> "audio/wav",
     WAVToMP3Converter    |-> "audio/mpeg",
     MP4ToMP3Converter    |-> "audio/mpeg",
     MP4ToAVIConverter    |-> "video/x-msvideo",
     AVIToMP4Converter    |-> "video/mp4",
     MKVToMP4Converter    |-> "video/mp4",
     MP4ToWEBMConverter   |-> "video/webm",
     OGGToMP3Converter    |-> "audio/mpeg",
     CompressPDFConverter |-> "application/pdf",
     MergePDFsConverter   |-> "application/pdf",
     MergeImagesConverter |-> "application/pdf"]

(***************************************************************************)
(* What the environment decides in one conversion: how a spawned tool      *)
(* ends, what the uploaded files hold.                                     *)
(***************************************************************************)
\* subprocess.run: exit status 0, exit status non-zero, TimeoutExpired,
\* FileNotFoundError; wrote: the tool left a file at the output path
ToolRuns ==
    {[exit |-> e, wrote |-> w] : e \in {"zero", "nonzero", "timeout"}, w \in BOOLEAN}
        \cup {[exit |-> "notfound", wrote |-> FALSE]}

NoTool == [exit |-> "none", wrote |-> FALSE]

\* the python-docx/reportlab fallback of DOCToPDFConverter
FallbackRuns == {"built", "empty", "error", "import_error"}

Modes == {"RGB", "RGBA", "LA", "P", "L", "CMYK"}

AlphaModes == {"RGBA", "LA", "P"}

NoImage == [opens |-> FALSE, mode |-> "none", w |-> 0, h |-> 0]

BrokenImage == [opens |-> FALSE, mode |-> "none", w |-> 1, h |-> 1]

\* the image of a single-image conversion
SingleImages ==
    {BrokenImage} \cup {[opens |-> TRUE, mode |-> m, w |-> 800, h |-> 600] : m \in Modes}

\* the images of a merge request: one that does not open, one that needs
\* nothing, one with an alpha channel and one that is too large
MergeImages ==
    {BrokenImage}
        \cup {[opens |-> TRUE, mode |-> md[1], w |-> md[2], h |-> md[3]] :
                 md \in {<<"RGB", 800, 600>>, <<"RGBA", 800, 600>>, <<"RGB", 4000, 3000>>}}

\* an uploaded PDF: it opens with no page, one page or MaxPages pages, or
\* fitz fails on it
PdfFiles ==
    {[opens |-> FALSE, pages |-> 0]}
        \cup {[opens |-> TRUE, pages |-> n] : n \in {0, 1, MaxPages}}

LibRuns == {"ok", "error"}

\* what file.read() gives for an uploaded text file
TextFiles == {"", " ", " \n\t", "a", " a\n", "\n \na b"}

\* paragraph.text of the paragraphs of an uploaded DOCX document
DocxFiles == {<<>>, <<"">>, <<" ", "", "\t">>, <<"a">>, <<"", " a b ">>}

\* the rows csv.reader gives for an uploaded CSV file (a blank line gives
\* an empty row)
CsvFiles == {<<>>, <<<<>>>>, <<<<"a", "b">>>>, <<<<"a">>, <<>>, <<"1">>>>}

NoEnv ==
    [tool |-> NoTool, fallback |-> "not_run", image |-> NoImage, lib |-> "none",
     pdfs |-> <<>>, images |-> <<>>, text |-> "", paragraphs |-> <<>>, rows |-> <<>>]

(***************************************************************************)
(* The converters (converters.py).  A conversion gives the path it returns *)
(* or the message of the exception it raises, the files it left in the     *)
(* working directory, and what it put into the output.                     *)
(***************************************************************************)
ERR_TIMEOUT_EXPIRED == "Command timed out after N seconds"
ERR_NOT_FOUND == "No such file or directory"
ERR_FFMPEG == "FFmpeg error: stderr"
ERR_MP4_STDERR == "Audio conversion failed: stderr"
ERR_MP4_TIMEOUT == "Conversion timed out. File may be too large."
ERR_NOT_CREATED == "Converted file was not created"
ERR_LIBREOFFICE == "LibreOffice conversion failed"
ERR_DOC_EMPTY == "Document appears to be empty"
ERR_DOC_NO_LIBS == "Neither LibreOffice nor required Python libraries available for DOC conversion."
ERR_PDF_NOT_CREATED == "PDF file was not created"
ERR_LIBRARY == "library error"
ERR_IMAGE_OPEN == "cannot identify image file"
ERR_NO_PDF_PAGES == "No valid PDF pages found to merge"
ERR_NO_IMAGES == "No valid images found to merge"

NoWork == [pages |-> <<>>, errors |-> <<>>, processed |-> <<>>, encoded |-> <<>>]

Returned(path, files, work) ==
    [returned |-> path, raised |-> NoneVal, wrote |-> files, work |-> work]

Raised(msg, files, work) ==
    [returned |-> NoneVal, raised |-> msg, wrote |-> files, work |-> work]

ToolWrote(tool, out) == IF tool.wrote THEN {out} ELSE {}

ffmpeg_convert_ignore_exit(tool, out) ==
    CASE tool.exit = "timeout"  -> Raised(ERR_TIMEOUT_EXPIRED, ToolWrote(tool, out), NoWork)
      [] tool.exit = "notfound" -> Raised(ERR_NOT_FOUND, {}, NoWork)
      [] OTHER                  -> Returned(out, ToolWrote(tool, out), NoWork)

ffmpeg_convert_swallow_timeout(tool, out) ==
    CASE tool.exit = "notfound" -> Raised(ERR_NOT_FOUND, {}, NoWork)
      [] tool.exit = "nonzero"  -> Raised(ERR_FFMPEG, ToolWrote(tool, out), NoWork)
      [] OTHER                  -> Returned(out, ToolWrote(tool, out), NoWork)

\* MP3ToWAV, WAVToMP3, MP4ToAVI, AVIToMP4, MKVToMP4, MP4ToWEBM, OGGToMP3
ffmpeg_convert(tool, out) ==
    CASE tool.exit = "timeout"  -> Raised(ERR_TIMEOUT_EXPIRED, ToolWrote(tool, out), NoWork)
      [] tool.exit = "notfound" -> Raised(ERR_NOT_FOUND, {}, NoWork)
      [] tool.exit = "nonzero"  -> Raised(ERR_FFMPEG, ToolWrote(tool, out), NoWork)
      [] OTHER                  -> Returned(out, ToolWrote(tool, out), NoWork)

\* MP4ToMP3Converter.convert
mp4_to_mp3_convert(tool, out) ==
    CASE tool.exit = "timeout"  -> Raised(ERR_MP4_TIMEOUT, ToolWrote(tool, out), NoWork)
      [] tool.exit = "notfound" -> Raised(ERR_NOT_FOUND, {}, NoWork)
      [] tool.exit = "nonzero"  -> Raised(ERR_MP4_STDERR, ToolWrote(tool, out), NoWork)
      [] OTHER                  ->
            IF ~tool.wrote
            THEN Raised(ERR_NOT_CREATED, {}, NoWork)
            ELSE Returned(out, {out}, NoWork)

pptx_convert_ignore_notfound(tool, out) ==
    CASE tool.exit = "timeout" -> Raised(ERR_TIMEOUT_EXPIRED, ToolWrote(tool, out), NoWork)
      [] OTHER                 ->
            IF tool.exit = "nonzero" \/ (tool.exit = "zero" /\ ~tool.wrote)
            THEN Raised(ERR_LIBREOFFICE, ToolWrote(tool, out), NoWork)
            ELSE Returned(out, ToolWrote(tool, out), NoWork)

\* PPTXToPDFConverter.convert
pptx_convert(tool, out) ==
    CASE tool.exit = "timeout"  -> Raised(ERR_TIMEOUT_EXPIRED, ToolWrote(tool, out), NoWork)
      [] tool.exit = "notfound" -> Raised(ERR_NOT_FOUND, {}, NoWork)
      [] OTHER                  ->
            IF tool.exit # "zero" \/ ~tool.wrote
            THEN Raised(ERR_LIBREOFFICE, ToolWrote(tool, out), NoWork)
            ELSE Returned(out, {out}, NoWork)

\* the strategies DOCToPDFConverter.convert went through, in order
LibreOfficeOnly == [NoWork EXCEPT !.processed = <<"libreoffice">>]

ThenFallback == [NoWork EXCEPT !.processed = <<"libreoffice", "fallback">>]

doc_convert_trust_exit(tool, fallback, out) ==
    IF tool.exit = "zero"
    THEN Returned(out, ToolWrote(tool, out), LibreOfficeOnly)
    ELSE CASE fallback = "built"        -> Returned(out, {out}, ThenFallback)
           [] fallback = "empty"        -> Raised(ERR_DOC_EMPTY, ToolWrote(tool, out), ThenFallback)
           [] fallback = "import_error" -> Raised(ERR_DOC_NO_LIBS, ToolWrote(tool, out), ThenFallback)
           [] OTHER                     -> Raised(ERR_LIBRARY, ToolWrote(tool, out), ThenFallback)

\* DOCToPDFConverter.convert: LibreOffice, then the python-docx fallback.
\* reportlab's build either writes the file or raises, so the check of
\* line 350 passes whenever the fallback built the document.
doc_convert(tool, fallback, out) ==
    IF tool.exit = "zero" /\ tool.wrote
    THEN Returned(out, {out}, LibreOfficeOnly)
    ELSE CASE fallback = "built"        -> Returned(out, {out}, ThenFallback)
           [] fallback = "empty"        -> Raised(ERR_DOC_EMPTY, ToolWrote(tool, out), ThenFallback)
           [] fallback = "import_error" -> Raised(ERR_DOC_NO_LIBS, ToolWrote(tool, out), ThenFallback)
           [] OTHER                     -> Raised(ERR_LIBRARY, ToolWrote(tool, out), ThenFallback)

\* PNGToJPGConverter lines 99-107, WEBPToJPGConverter lines 1013-1020
normalize_composite(mode) ==
    IF mode \in {"RGBA", "LA", "P"} THEN "paste_on_white"
    ELSE IF mode # "RGB" THEN "convert_rgb"
    ELSE "none"

\* JPGToPDFConverter lines 472-473, JPGToWEBPConverter lines 1093-1094,
\* MergeImagesConverter lines 1290-1291
normalize_convert(mode) == IF mode # "RGB" THEN "convert_rgb" ELSE "none"

\* how each image converter brings the image to the encoder
normalization(class, mode) ==
    CASE class \in {"PNGToJPGConverter", "WEBPToJPGConverter"} -> normalize_composite(mode)
      [] class \in {"JPGToPDFConverter", "JPGToWEBPConverter", "MergeImagesConverter"} ->
            normalize_convert(mode)
      [] OTHER -> "none"

\* the single-image converters
image_convert(class, image, out) ==
    IF ~image.opens
    THEN Raised(ERR_IMAGE_OPEN, {}, NoWork)
    ELSE Returned(out, {out},
                  [NoWork EXCEPT !.encoded =
                      <<[mode_in |-> image.mode, how |-> normalization(class, image.mode)]>>])

\* the converters that call a library in-process
library_convert(lib, out) ==
    IF lib = "ok" THEN Returned(out, {out}, NoWork) ELSE Raised(ERR_LIBRARY, {}, NoWork)

ERR_TXT_EMPTY == "Text file appears to be empty"
ERR_DOCX_EMPTY == "Document appears to be empty"
ERR_CSV_EMPTY == "CSV file is empty"

\* the characters str.strip() removes
Whitespace == {" ", "\n", "\t"}

RECURSIVE join_lines(_)
\* '\n'.join(full_text)
join_lines(texts) ==
    IF texts = <<>> THEN ""
    ELSE IF Len(texts) = 1 THEN texts[1]
         ELSE texts[1] \o "\n" \o join_lines(Tail(texts))

txt_to_pdf_convert_no_check(content, lib, out) == library_convert(lib, out)

\* TXTToPDFConverter.convert: the check of lines 1346-1347 precedes the
\* creation of the output; lib is how reportlab's build ends
txt_to_pdf_convert(content, lib, out) ==
    IF strip(content, Whitespace) = ""
    THEN Raised(ERR_TXT_EMPTY, {}, NoWork)
    ELSE library_convert(lib, out)

\* DOCXToPDFConverter.convert, lines 182-193 and then the build
docx_to_pdf_convert(paragraphs, lib, out) ==
    LET content == join_lines(paragraphs)
    IN  IF strip(content, Whitespace) = ""
        THEN Raised(ERR_DOCX_EMPTY, {}, NoWork)
        ELSE library_convert(lib, out)

\* CSVToPDFConverter.convert, lines 785-796 and then the build
csv_to_pdf_convert(rows, lib, out) ==
    IF rows = <<>>
    THEN Raised(ERR_CSV_EMPTY, {}, NoWork)
    ELSE library_convert(lib, out)

\* f"{n:03d}" for 1 <= n <= 9
three_digits(n) == "0" \o two_digits(n)

\* f"{base_name}_page_{page_num + 1:03d}.png", n being page_num + 1
page_filename(base_name, n) == base_name \o "_page_" \o three_digits(n) \o ".png"

\* where PDFToPNGConverter.convert may fail once the PDF is open: nowhere,
\* in pix.save of the last page, in writing the archive, in shutil.rmtree
RasterRuns == {"ok", "render", "zip", "rmtree"}

pdf_to_png_convert_keep_pages(pdf, run, input_name, out) ==
    LET base_name == splitext_root(basename(input_name))
        png_dir   == base_name \o "_pages"
        png_files == [i \in 1..pdf.pages |-> png_dir \o "/" \o page_filename(base_name, i)]
        onDisk    == {png_dir} \cup {png_files[i] : i \in 1..pdf.pages}
    IN  IF ~pdf.opens \/ run # "ok"
        THEN Raised(ERR_LIBRARY, {}, NoWork)
        ELSE Returned(out, onDisk \cup {out},
                      [NoWork EXCEPT !.pages = [i \in 1..pdf.pages |-> basename(png_files[i])]])

\* PDFToPNGConverter.convert
pdf_to_png_convert(pdf, run, input_name, out) ==
    LET base_name == splitext_root(basename(input_name))
        png_dir   == base_name \o "_pages"
        rendered  == IF run = "render" /\ pdf.pages >= 1 THEN pdf.pages - 1 ELSE pdf.pages
        png_files == [i \in 1..rendered |-> png_dir \o "/" \o page_filename(base_name, i)]
        onDisk    == {png_dir} \cup {png_files[i] : i \in 1..rendered}
        entries   == [i \in 1..rendered |-> basename(png_files[i])]
    IN  CASE ~pdf.opens                      -> Raised(ERR_LIBRARY, {}, NoWork)
          [] run = "render" /\ pdf.pages >= 1 -> Raised(ERR_LIBRARY, onDisk, NoWork)
          [] run = "zip"                     -> Raised(ERR_LIBRARY, onDisk \cup {out}, NoWork)
          [] run = "rmtree"                  ->
                Raised(ERR_LIBRARY, onDisk \cup {out}, [NoWork EXCEPT !.pages = entries])
          [] OTHER                           ->
                Returned(out, {out}, [NoWork EXCEPT !.pages = entries])

(***************************************************************************)
(* The merge aggregators.                                                  *)
(***************************************************************************)
Abs(n) == IF n < 0 THEN -n ELSE n

Max2(a, b) == IF a >= b THEN a ELSE b

\* MergeImagesConverter.convert line 1294
max_size == 2000

thumbnail_size_floor(w, h, x, y) ==
    IF x >= w /\ y >= h THEN <<w, h>>
    ELSE IF x * h >= w * y
         THEN <<(y * w) \div h, y>>
         ELSE <<x, (x * h) \div w>>

\* PIL Image.thumbnail((x, y)) on a w * h image: the size it gets.  The
\* side that is not pinned is floor or ceil of the exact value, whichever
\* keeps the aspect ratio closer (floor on a tie), and at least 1.
thumbnail_size(w, h, x, y) ==
    IF x >= w /\ y >= h THEN <<w, h>>
    ELSE IF x * h >= w * y
         THEN LET f  == (y * w) \div h
                  c  == IF f * h = y * w THEN f ELSE f + 1
                  kf == Abs(w * y - f * h)
                  kc == Abs(w * y - c * h)
              IN  <<Max2(IF kc < kf THEN c ELSE f, 1), y>>
         ELSE LET f  == (x * h) \div w
                  c  == IF f * w = x * h THEN f ELSE f + 1
                  kf == IF f = 0 THEN 0 ELSE Abs(w * f - x * h) * c
                  kc == Abs(w * c - x * h) * f
              IN  <<x, Max2(IF kc < kf THEN c ELSE f, 1)>>

\* lines 1288-1299: the page stored for input i
merge_image_page(image, i) ==
    LET size == IF image.w > max_size \/ image.h > max_size
                THEN thumbnail_size(image.w, image.h, max_size, max_size)
                ELSE <<image.w, image.h>>
    IN  [src |-> i, w |-> size[1], h |-> size[2]]

merge_image_encoded(image) ==
    [mode_in |-> image.mode, how |-> normalization("MergeImagesConverter", image.mode)]

RECURSIVE merge_images_loop_abort(_, _, _)
merge_images_loop_abort(images, i, acc) ==
    IF i > Len(images) THEN acc
    ELSE IF images[i].opens
         THEN merge_images_loop_abort(images, i + 1,
                  [acc EXCEPT !.pages = Append(@, merge_image_page(images[i], i)),
                              !.processed = Append(@, i),
                              !.encoded = Append(@, merge_image_encoded(images[i]))])
         ELSE [acc EXCEPT !.errors = Append(@, i), !.processed = Append(@, i)]

RECURSIVE merge_images_loop(_, _, _)
\* lines 1285-1305: the loop over the inputs, from input i on
merge_images_loop(images, i, acc) ==
    IF i > Len(images) THEN acc
    ELSE IF images[i].opens
         THEN merge_images_loop(images, i + 1,
                  [acc EXCEPT !.pages = Append(@, merge_image_page(images[i], i)),
                              !.processed = Append(@, i),
                              !.encoded = Append(@, merge_image_encoded(images[i]))])
         ELSE merge_images_loop(images, i + 1,
                  [acc EXCEPT !.errors = Append(@, i), !.processed = Append(@, i)])

\* MergeImagesConverter.convert
merge_images_convert(images) ==
    LET work == merge_images_loop(images, 1, NoWork)
    IN  IF work.pages = <<>>
        THEN Raised(ERR_NO_IMAGES, {}, work)
        ELSE Returned(MERGED_IMAGES, {MERGED_IMAGES}, work)

\* merged_pdf.insert_pdf(source_pdf): the pages of input i, in their order
pdf_pages(pdf, i) == [p \in 1..pdf.pages |-> <<i, p>>]

RECURSIVE merge_pdfs_loop_abort(_, _, _)
merge_pdfs_loop_abort(pdfs, i, acc) ==
    IF i > Len(pdfs) THEN acc
    ELSE IF pdfs[i].opens
         THEN merge_pdfs_loop_abort(pdfs, i + 1,
                  [acc EXCEPT !.pages = @ \o pdf_pages(pdfs[i], i),
                              !.processed = Append(@, i)])
         ELSE [acc EXCEPT !.errors = Append(@, i), !.processed = Append(@, i)]

RECURSIVE merge_pdfs_loop(_, _, _)
\* lines 1226-1243: the loop over the inputs, from input i on
merge_pdfs_loop(pdfs, i, acc) ==
    IF i > Len(pdfs) THEN acc
    ELSE IF pdfs[i].opens
         THEN merge_pdfs_loop(pdfs, i + 1,
                  [acc EXCEPT !.pages = @ \o pdf_pages(pdfs[i], i),
                              !.processed = Append(@, i)])
         ELSE merge_pdfs_loop(pdfs, i + 1,
                  [acc EXCEPT !.errors = Append(@, i), !.processed = Append(@, i)])

merge_pdfs_convert_empty_ok(pdfs) ==
    Returned(MERGED_DOCUMENT, {MERGED_DOCUMENT}, merge_pdfs_loop(pdfs, 1, NoWork))

\* MergePDFsConverter.convert
merge_pdfs_convert(pdfs) ==
    LET work == merge_pdfs_loop(pdfs, 1, NoWork)
    IN  IF Len(work.pages) = 0
        THEN Raised(ERR_NO_PDF_PAGES, {}, work)
        ELSE Returned(MERGED_DOCUMENT, {MERGED_DOCUMENT}, work)

(***************************************************************************)
(* Requests.                                                               *)
(***************************************************************************)
AllExts == UNION {ALLOWED_EXTENSIONS[t] : t \in DOMAIN ALLOWED_EXTENSIONS}

\* file names of single-file uploads: one well-formed name per extension of
\* the registry, and names that probe the extension check
FileNames ==
    {"a." \o e : e \in AllExts}
        \cup {"", "png", "a.gif", "a.PNG", "a.PDF", "a.JPG", ".pdf", "a.",
              "a.png.gif", "a.gif.png", "x/a.png"}

\* file names of the uploads of a merge request
MergeNames == {"", "a.pdf", "a.PDF", "a.png", "a.JPG", ".png", "a.txt"}

\* the conversion_type field of the form: a registered type, an unknown
\* one, the empty string, or no field at all
FormTypes == ConversionTypes \cup {"pdf_to_gif", "", NoneVal}

SeqsUpTo(S, n) == UNION {[1..k -> S] : k \in 0..n}

SingleRequests ==
    {[conversion_type |-> t, has_file |-> TRUE, filename |-> f, files |-> <<>>] :
        t \in FormTypes \ MergeTypes, f \in FileNames}
        \cup {[conversion_type |-> t, has_file |-> FALSE, filename |-> "", files |-> <<>>] :
                 t \in FormTypes \ MergeTypes}

MergeRequests ==
    {[conversion_type |-> t, has_file |-> FALSE, filename |-> "", files |-> names] :
        t \in MergeTypes, names \in SeqsUpTo(MergeNames, MaxFiles)}

Requests == SingleRequests \cup MergeRequests

NoRequest == [conversion_type |-> NoneVal, has_file |-> FALSE, filename |-> "", files |-> <<>>]

(***************************************************************************)
(* The state of the worker.                                                *)
(***************************************************************************)
VARIABLES
    pc,           \* where the handler of the current request stands
    req,          \* the request being handled
    temp_dir,     \* TRUE while the job's working directory exists
    fs,           \* names of the files in the working directory
    input_paths,  \* names under which the uploads were saved, in order
    env,          \* what the environment decided for this conversion
    conv,         \* the call of convert: times called, result, work done
    outcome,      \* what the client gets
    calls,        \* per request: directories created, uploads saved, rmtree calls
    proc,         \* the child process of subprocess.run: none, running, exited, killed
    orphans,      \* working directories of earlier requests that rmtree left behind
    registry      \* the module-level tables of app.py and the converter instances

vars == <<pc, req, temp_dir, fs, input_paths, env, conv, outcome, calls, proc, orphans, registry>>

NoConv == [called |-> 0, returned |-> NoneVal, raised |-> NoneVal, work |-> NoWork]

NoOutcome ==
    [kind |-> "none", flash |-> "", detail |-> "", download_name |-> "", mimetype |-> ""]

Redirect(message, cause) ==
    [kind |-> "redirect", flash |-> message, detail |-> cause,
     download_name |-> "", mimetype |-> ""]

Download(name, mime) ==
    [kind |-> "download", flash |-> "", detail |-> "", download_name |-> name,
     mimetype |-> mime]

\* ALLOWED_EXTENSIONS and converters as the module creates them, and the
\* attributes set on each converter instance (the classes have no __init__)
InitialRegistry ==
    [ALLOWED_EXTENSIONS |-> ALLOWED_EXTENSIONS,
     converters         |-> converters,
     output_mimetype    |-> [t \in DOMAIN converters |-> output_mimetype[converters[t]]],
     attributes         |-> [t \in DOMAIN converters |-> {}]]

registry_lookup_pop(reg, t) ==
    [reg EXCEPT !.converters = [k \in (DOMAIN reg.converters) \ {t} |-> reg.converters[k]]]

\* converters[conversion_type], converter.convert(...) and
\* converter.output_mimetype (lines 180-199): the table is read by
\* subscription, and no convert method assigns to an attribute of self
registry_lookup(reg, t) == reg

NoCalls == [mkdtemp |-> 0, save |-> 0, rmtree |-> 0, rmtree_raised |-> FALSE, spawn |-> 0]

Init ==
    /\ pc = "idle"
    /\ req = NoRequest
    /\ temp_dir = FALSE
    /\ fs = {}
    /\ input_paths = <<>>
    /\ env = NoEnv
    /\ conv = NoConv
    /\ outcome = NoOutcome
    /\ calls = NoCalls
    /\ proc = "none"
    /\ orphans = 0
    /\ registry = InitialRegistry

\* a POST to /convert arrives
Receive ==
    /\ pc = "idle"
    /\ \E r \in Requests : req' = r
    /\ pc' = "dispatch"
    /\ UNCHANGED <<temp_dir, fs, input_paths, env, conv, outcome, calls, proc, orphans, registry>>

\* a validation that ends the request, or lets it go on to mkdtemp
Validated(message) ==
    /\ IF message = "ok"
       THEN pc' = "mkdtemp" /\ outcome' = outcome
       ELSE pc' = "done" /\ outcome' = Redirect(message, "")
    /\ UNCHANGED <<req, temp_dir, fs, input_paths, env, conv, calls, proc, orphans, registry>>

\* convert_file lines 141-168, for a type that is not a merge
convert_file ==
    /\ pc = "dispatch"
    /\ req.conversion_type \notin MergeTypes
    /\ Validated(validate_single(req))

\* handle_pdf_merge lines 227-245
handle_pdf_merge ==
    /\ pc = "dispatch"
    /\ req.conversion_type = "merge_pdfs"
    /\ Validated(validate_pdf_merge(req.files))

\* handle_image_merge lines 296-318
handle_image_merge ==
    /\ pc = "dispatch"
    /\ req.conversion_type = "merge_images"
    /\ Validated(validate_image_merge(req.files))

\* tempfile.mkdtemp()
mkdtemp ==
    /\ pc = "mkdtemp"
    /\ temp_dir' = TRUE
    /\ calls' = [calls EXCEPT !.mkdtemp = @ + 1]
    /\ pc' = "save"
    /\ UNCHANGED <<req, fs, input_paths, env, conv, outcome, proc, orphans, registry>>

\* the names under which the handler saves the uploads
upload_names(r) ==
    IF r.conversion_type \in MergeTypes
    THEN [i \in 1..Len(kept_files(r.files)) |->
             merge_input_name(r.conversion_type, i, kept_files(r.files)[i])]
    ELSE <<single_input_name(r.filename)>>

FailedMessage(conversion_type) ==
    CASE conversion_type = "merge_pdfs"   -> "PDF merge failed"
      [] conversion_type = "merge_images" -> "Image merge failed"
      [] OTHER                            -> "Conversion failed"

ERR_SAVE == "file.save failed"

Range(q) == {q[i] : i \in DOMAIN q}

\* file.save(input_path) for each upload; k > 0: the k-th save raises
save_uploads ==
    /\ pc = "save"
    /\ \E k \in 0..Len(upload_names(req)) :
          LET names == upload_names(req)
              saved == IF k = 0 THEN names ELSE SubSeq(names, 1, k - 1)
          IN  /\ input_paths' = saved
              /\ fs' = fs \cup Range(saved)
              /\ calls' = [calls EXCEPT !.save = Len(saved)]
              /\ pc' = IF k = 0 THEN "convert" ELSE "cleanup"
              /\ outcome' = IF k = 0
                            THEN outcome
                            ELSE Redirect(FailedMessage(req.conversion_type), ERR_SAVE)
    /\ UNCHANGED <<req, temp_dir, env, conv, proc, orphans, registry>>

(***************************************************************************)
(* Invoking the converter.                                                 *)
(***************************************************************************)
FfmpegClasses ==
    {"MP3ToWAVConverter", "WAVToMP3Converter", "MP4ToAVIConverter", "AVIToMP4Converter",
     "MKVToMP4Converter", "MP4ToWEBMConverter", "OGGToMP3Converter"}

ImageClasses ==
    {"PNGToJPGConverter", "WEBPToJPGConverter", "JPGToPDFConverter", "JPGToWEBPConverter",
     "JPGToPNGConverter", "BMPToPNGConverter"}

\* the converters that spawn an external executable with subprocess.run
SubprocessClasses ==
    FfmpegClasses \cup {"MP4ToMP3Converter", "PPTXToPDFConverter", "DOCToPDFConverter"}

\* the fallback of doc_to_pdf runs exactly when LibreOffice did not deliver
FallbackConsistent(e) ==
    (e.fallback = "not_run") <=> (e.tool.exit = "zero" /\ e.tool.wrote)

\* what the environment may decide for a converter of this class
EnvChoices(class) ==
    CASE class = "DOCToPDFConverter" ->
            {e \in {[NoEnv EXCEPT !.tool = t, !.fallback = f] :
                        t \in ToolRuns, f \in FallbackRuns \cup {"not_run"}} :
                FallbackConsistent(e)}
      [] class \in SubprocessClasses -> {[NoEnv EXCEPT !.tool = t] : t \in ToolRuns}
      [] class \in ImageClasses      -> {[NoEnv EXCEPT !.image = i] : i \in SingleImages}
      [] class = "PDFToPNGConverter" ->
            {[NoEnv EXCEPT !.pdfs = <<p>>, !.lib = l] : p \in PdfFiles, l \in RasterRuns}
      [] class = "TXTToPDFConverter" ->
            {[NoEnv EXCEPT !.text = c, !.lib = l] : c \in TextFiles, l \in LibRuns}
      [] class = "DOCXToPDFConverter" ->
            {[NoEnv EXCEPT !.paragraphs = c, !.lib = l] : c \in DocxFiles, l \in LibRuns}
      [] class = "CSVToPDFConverter" ->
            {[NoEnv EXCEPT !.rows = c, !.lib = l] : c \in CsvFiles, l \in LibRuns}
      [] OTHER                       -> {[NoEnv EXCEPT !.lib = l] : l \in LibRuns}

\* converter.convert(input_path, temp_dir) of a single-input converter
run_converter(class, e, input_name) ==
    LET out == output_name(class, input_name)
    IN  CASE class = "DOCToPDFConverter"  -> doc_convert(e.tool, e.fallback, out)
          [] class = "PPTXToPDFConverter" -> pptx_convert(e.tool, out)
          [] class = "MP4ToMP3Converter"  -> mp4_to_mp3_convert(e.tool, out)
          [] class \in FfmpegClasses      -> ffmpeg_convert(e.tool, out)
          [] class \in ImageClasses       -> image_convert(class, e.image, out)
          [] class = "PDFToPNGConverter"  -> pdf_to_png_convert(e.pdfs[1], e.lib, input_name, out)
          [] class = "TXTToPDFConverter"  -> txt_to_pdf_convert(e.text, e.lib, out)
          [] class = "DOCXToPDFConverter" -> docx_to_pdf_convert(e.paragraphs, e.lib, out)
          [] class = "CSVToPDFConverter"  -> csv_to_pdf_convert(e.rows, e.lib, out)
          [] OTHER                        -> library_convert(e.lib, out)

\* the converters that start an executable: those of SubprocessClasses with
\* subprocess.run, HTMLToPDFConverter with pdfkit.from_file (wkhtmltopdf)
SpawningClasses == SubprocessClasses \cup {"HTMLToPDFConverter"}

tool_attempts_retry(class, tool) ==
    IF class \notin SpawningClasses THEN 0
    ELSE IF tool.exit \in {"nonzero", "timeout"} THEN 2 ELSE 1

\* how often one call of convert starts its executable: the call of
\* subprocess.run (or pdfkit.from_file) sits in no loop, and no except
\* clause runs it again, however it ended
tool_attempts(class, tool) == IF class \in SpawningClasses THEN 1 ELSE 0

Converted(e, r, p) ==
    /\ env' = e
    /\ proc' = p
    /\ conv' = [called |-> conv.called + 1, returned |-> r.returned,
                raised |-> r.raised, work |-> r.work]
    /\ fs' = fs \cup r.wrote
    /\ pc' = "respond"
    /\ registry' = IF req.conversion_type \in MergeTypes
                   THEN registry
                   ELSE registry_lookup(registry, req.conversion_type)
    /\ calls' = [calls EXCEPT
                     !.spawn = @ + tool_attempts(converters[req.conversion_type], e.tool)]
    /\ UNCHANGED <<req, temp_dir, input_paths, outcome, orphans>>

\* convert_file lines 180-181, a converter that works in-process
convert_single ==
    /\ pc = "convert"
    /\ req.conversion_type \notin MergeTypes
    /\ LET class == converters[req.conversion_type]
       IN  /\ class \notin SubprocessClasses
           /\ \E e \in EnvChoices(class) :
                 Converted(e, run_converter(class, e, input_paths[1]), proc)

subprocess_run_detached(exit) == IF exit = "timeout" THEN "running" ELSE "exited"

\* subprocess.run(cmd, timeout=...): it waits for the child; on expiry of
\* the timeout it kills the child and waits for it before TimeoutExpired
\* goes up
subprocess_run_end(exit) == IF exit = "timeout" THEN "killed" ELSE "exited"

\* convert_file lines 180-181, a converter that spawns a tool: the child
\* starts, or the executable is missing and FileNotFoundError is raised
spawn_tool ==
    /\ pc = "convert"
    /\ req.conversion_type \notin MergeTypes
    /\ LET class == converters[req.conversion_type]
       IN  /\ class \in SubprocessClasses
           /\ \/ /\ pc' = "tool"
                 /\ proc' = "running"
                 /\ UNCHANGED <<req, temp_dir, fs, input_paths, env, conv, outcome, calls,
                                orphans, registry>>
              \/ \E e \in EnvChoices(class) :
                    /\ e.tool.exit = "notfound"
                    /\ Converted(e, run_converter(class, e, input_paths[1]), "none")

\* subprocess.run returns or raises TimeoutExpired; convert goes on to its end
tool_returns ==
    /\ pc = "tool"
    /\ LET class == converters[req.conversion_type]
       IN  \E e \in EnvChoices(class) :
              /\ e.tool.exit # "notfound"
              /\ Converted(e, run_converter(class, e, input_paths[1]),
                           subprocess_run_end(e.tool.exit))

\* handle_pdf_merge lines 260-261
convert_merge_pdfs ==
    /\ pc = "convert"
    /\ req.conversion_type = "merge_pdfs"
    /\ \E pdfs \in [1..Len(input_paths) -> PdfFiles] :
          Converted([NoEnv EXCEPT !.pdfs = pdfs], merge_pdfs_convert(pdfs), proc)

\* handle_image_merge lines 333-334
convert_merge_images ==
    /\ pc = "convert"
    /\ req.conversion_type = "merge_images"
    /\ \E images \in [1..Len(input_paths) -> MergeImages] :
          Converted([NoEnv EXCEPT !.images = images], merge_images_convert(images), proc)

(***************************************************************************)
(* The response and the clean-up.                                          *)
(***************************************************************************)
\* str(n) for 0 <= n <= 9
str_digit(n) ==
    CASE n = 0 -> "0" [] n = 1 -> "1" [] n = 2 -> "2" [] n = 3 -> "3" [] n = 4 -> "4"
      [] n = 5 -> "5" [] n = 6 -> "6" [] n = 7 -> "7" [] n = 8 -> "8" [] OTHER -> "9"

download_name_count_merged(r, returned, saved) ==
    CASE r.conversion_type = "merge_pdfs" ->
            "merged_" \o str_digit(Len(saved) - Len(conv.work.errors)) \o "_pdfs.pdf"
      [] r.conversion_type = "merge_images" ->
            "merged_" \o str_digit(Len(saved) - Len(conv.work.errors)) \o "_images.pdf"
      [] r.conversion_type = "pdf_to_png" /\ endswith(returned, ".zip") ->
            splitext_root(basename(saved[1])) \o "_all_pages.zip"
      [] OTHER -> basename(returned)

\* the download_name handed to send_file
download_name(r, returned, saved) ==
    CASE r.conversion_type = "merge_pdfs" ->
            "merged_" \o str_digit(Len(kept_files(r.files))) \o "_pdfs.pdf"
      [] r.conversion_type = "merge_images" ->
            "merged_" \o str_digit(Len(kept_files(r.files))) \o "_images.pdf"
      [] r.conversion_type = "pdf_to_png" /\ endswith(returned, ".zip") ->
            splitext_root(basename(saved[1])) \o "_all_pages.zip"
      [] OTHER -> basename(returned)

response_mimetype_pdf(r) == "application/pdf"

\* the MIME type handed to send_file
response_mimetype(r) ==
    IF r.conversion_type \in MergeTypes
    THEN "application/pdf"
    ELSE output_mimetype[converters[r.conversion_type]]

respond_trust_converter(r, c, files, saved) ==
    IF c.raised # NoneVal
    THEN Redirect(FailedMessage(r.conversion_type), c.raised)
    ELSE Download(download_name(r, c.returned, saved), response_mimetype(r))

\* what follows the call of convert: lines 183-205, 263-278, 336-351
respond_outcome(r, c, files, saved) ==
    IF c.raised # NoneVal
    THEN Redirect(FailedMessage(r.conversion_type), c.raised)
    ELSE IF c.returned = NoneVal \/ c.returned \notin files
         THEN Redirect(FailedMessage(r.conversion_type) \o ". Please try again.", "")
         ELSE Download(download_name(r, c.returned, saved), response_mimetype(r))

respond ==
    /\ pc = "respond"
    /\ outcome' = respond_outcome(req, conv, fs, input_paths)
    /\ pc' = "cleanup"
    /\ UNCHANGED <<req, temp_dir, fs, input_paths, env, conv, calls, proc, orphans, registry>>

rmtree_keep(files, raised) == [exists |-> TRUE, files |-> files]

\* shutil.rmtree(temp_dir): the directory and all it holds are gone, or
\* rmtree raises and the directory stays
rmtree(files, raised) ==
    IF raised THEN [exists |-> TRUE, files |-> files] ELSE [exists |-> FALSE, files |-> {}]

\* an exception that leaves the request handler
Escaped(cause) ==
    [kind |-> "exception", flash |-> "", detail |-> cause, download_name |-> "",
     mimetype |-> ""]

ERR_RMTREE == "rmtree failed"

finally_clause_propagate(o, raised) == IF raised THEN Escaped(ERR_RMTREE) ELSE o

\* lines 207-212: an exception of rmtree is caught and logged, and the
\* response built before the finally clause stands
finally_clause(o, raised) == o

\* the finally clause: rmtree in a try whose except clause logs a warning
cleanup ==
    /\ pc = "cleanup"
    /\ \E raised \in BOOLEAN :
          /\ temp_dir' = rmtree(fs, raised).exists
          /\ fs' = rmtree(fs, raised).files
          /\ calls' = [calls EXCEPT !.rmtree = @ + 1, !.rmtree_raised = raised]
          /\ outcome' = finally_clause(outcome, raised)
    /\ pc' = "done"
    /\ UNCHANGED <<req, input_paths, env, conv, proc, orphans, registry>>

\* the response has gone out; the worker takes the next request
NextRequest ==
    /\ pc = "done"
    /\ pc' = "idle"
    /\ req' = NoRequest
    /\ input_paths' = <<>>
    /\ env' = NoEnv
    /\ conv' = NoConv
    /\ outcome' = NoOutcome
    /\ calls' = NoCalls
    /\ temp_dir => orphans < MaxOrphans
    /\ orphans' = IF temp_dir THEN orphans + 1 ELSE orphans
    /\ temp_dir' = FALSE
    /\ fs' = {}
    /\ proc' = "none"
    /\ registry' = registry

Next ==
    \/ Receive
    \/ convert_file
    \/ handle_pdf_merge
    \/ handle_image_merge
    \/ mkdtemp
    \/ save_uploads
    \/ convert_single
    \/ spawn_tool
    \/ tool_returns
    \/ convert_merge_pdfs
    \/ convert_merge_images
    \/ respond
    \/ cleanup
    \/ NextRequest

Spec == Init /\ [][Next]_vars

(***************************************************************************)
(* Properties of the dispatch (sections 4.4 and 7 of the specification).   *)
(***************************************************************************)
\* the handler of the current request has finished its validation
PastValidation == pc \notin {"idle", "dispatch"}

\* the extension of a file name is the text after its last dot, compared
\* without regard to case (section 4.4); a name without a dot has none
HasAcceptedExtension(name, t) ==
    \E i \in 1..Len(name) :
        /\ Ch(name, i) = "."
        /\ \A j \in (i + 1)..Len(name) : Ch(name, j) # "."
        /\ lower(SubSeq(name, i + 1, Len(name))) \in ALLOWED_EXTENSIONS[t]

NotRegistered(t) == t = NoneVal \/ t \notin ConversionTypes

\* the uploads of a merge request that carry a file name
NamedUploads(r) == {i \in 1..Len(r.files) : r.files[i] # ""}

RejectionMessages ==
    {MSG_NO_FILE, MSG_INVALID_TYPE, MSG_INVALID_FILE_TYPE, MSG_PDF_MIN_FILES,
     MSG_PDF_NOT_PDF, MSG_PDF_MIN_VALID, MSG_IMG_MIN_FILES, MSG_IMG_NOT_IMAGE,
     MSG_IMG_MIN_VALID}

UnsupportedExtensionMessages == {MSG_INVALID_FILE_TYPE, MSG_PDF_NOT_PDF, MSG_IMG_NOT_IMAGE}

InsufficientInputsMessages ==
    {MSG_PDF_MIN_FILES, MSG_PDF_MIN_VALID, MSG_IMG_MIN_FILES, MSG_IMG_MIN_VALID}

\* the request was turned down by validation, and nothing was done for it
RejectedWithoutWork ==
    /\ pc = "done"
    /\ outcome.kind = "redirect"
    /\ outcome.flash \in RejectionMessages
    /\ calls.mkdtemp = 0
    /\ calls.save = 0
    /\ conv.called = 0
    /\ ~temp_dir
    /\ fs = {}

\* the validation failures that claim C1 lists
FailsValidation(r) ==
    IF r.conversion_type \in MergeTypes
    THEN \/ Cardinality(NamedUploads(r)) < 2
         \/ \E i \in NamedUploads(r) : ~HasAcceptedExtension(r.files[i], r.conversion_type)
    ELSE \/ ~r.has_file
         \/ r.filename = ""
         \/ NotRegistered(r.conversion_type)
         \/ ~HasAcceptedExtension(r.filename, r.conversion_type)

\* C1: a request that fails validation (no file field, empty file name,
\* missing or unregistered type, extension not accepted, fewer than 2 merge
\* inputs, a merge input with a wrong extension) ends in a rejection, and
\* no working directory was created, no upload saved and no converter
\* invoked for it.
C1_InvalidRequestDoesNoWork ==
    (PastValidation /\ FailsValidation(req)) => RejectedWithoutWork

C1_Witness ==
    /\ pc = "done"
    /\ req.conversion_type = "merge_images"
    /\ req.files = <<"a.png", "a.txt", "a.JPG">>
    /\ outcome.flash = MSG_IMG_NOT_IMAGE

\* C2: for a registered single-input type and an uploaded file whose
\* extension is not in the type's accepted set, or whose name has no dot,
\* dispatch rejects the request as an unsupported extension and invokes no
\* converter.
C2_UnsupportedExtensionRejected ==
    (/\ PastValidation
     /\ req.conversion_type \in SingleTypes
     /\ req.has_file
     /\ req.filename # ""
     /\ ~HasAcceptedExtension(req.filename, req.conversion_type))
        => (/\ pc = "done"
            /\ outcome.kind = "redirect"
            /\ outcome.flash = MSG_INVALID_FILE_TYPE
            /\ conv.called = 0)

C2_Witness ==
    /\ pc = "done"
    /\ req.conversion_type = "png_to_jpg"
    /\ req.filename = "a.gif"
    /\ outcome.flash = MSG_INVALID_FILE_TYPE
    /\ conv.called = 0

\* C3 as claimed: a request whose conversion type is absent or not
\* registered is rejected as an invalid conversion type whatever file, or
\* no file, it carries, and no converter is invoked.
C3_Original ==
    (PastValidation /\ NotRegistered(req.conversion_type))
        => (/\ pc = "done"
            /\ outcome.kind = "redirect"
            /\ outcome.flash = MSG_INVALID_TYPE
            /\ conv.called = 0)

\* C3 as amended: a request whose conversion type is absent or not
\* registered is rejected and no converter is invoked; the rejection is the
\* invalid-conversion-type one when the request carries a file with a
\* non-empty name, and the no-file-selected one otherwise.
C3_UnregisteredTypeRejected ==
    (PastValidation /\ NotRegistered(req.conversion_type))
        => (/\ pc = "done"
            /\ outcome.kind = "redirect"
            /\ outcome.flash = (IF req.has_file /\ req.filename # ""
                                THEN MSG_INVALID_TYPE
                                ELSE MSG_NO_FILE)
            /\ conv.called = 0)

C3_Witness ==
    /\ pc = "done"
    /\ req.conversion_type = "pdf_to_gif"
    /\ req.filename = "a.pdf"
    /\ outcome.flash = MSG_INVALID_TYPE

\* the merge handler's own test refuses the name: its extension is not an
\* accepted one, or (merge_images, os.path.splitext) the name is nothing
\* but dots and an extension
RefusedByMergeTest(name, t) ==
    \/ ~HasAcceptedExtension(name, t)
    \/ /\ t = "merge_images"
       /\ \E d \in 1..Len(name) :
             /\ Ch(name, d) = "."
             /\ \A j \in (d + 1)..Len(name) : Ch(name, j) # "."
             /\ \A k \in 1..(d - 1) : Ch(name, k) = "."

MergeInvokedOnlyOnValidInputs ==
    conv.called > 0 =>
        /\ Cardinality(NamedUploads(req)) >= 2
        /\ \A i \in NamedUploads(req) : HasAcceptedExtension(req.files[i], req.conversion_type)

MergeBadExtensionRejectsAll ==
    (\E i \in NamedUploads(req) : ~HasAcceptedExtension(req.files[i], req.conversion_type))
        => (pc = "done" /\ outcome.kind = "redirect" /\ conv.called = 0)

PdfMergeRan == req.conversion_type = "merge_pdfs" /\ conv.called = 1

\* the pages of the inputs that opened: <<input, page>>
UsablePages ==
    {ip \in (1..Len(env.pdfs)) \X (1..(MaxPages + 1)) :
        env.pdfs[ip[1]].opens /\ ip[2] <= env.pdfs[ip[1]].pages}

FailedPdfs == {i \in 1..Len(env.pdfs) : ~env.pdfs[i].opens}

\* q lists the members of the set S of numbers in increasing order
Ascending(q, S) ==
    /\ Len(q) = Cardinality(S)
    /\ Range(q) = S
    /\ \A a, b \in 1..Len(q) : a < b => q[a] < q[b]

\* C5: a PDF merge in which some inputs fail to open succeeds whenever a
\* page is usable; the output holds exactly the pages of the inputs that
\* opened, in input order and in each document's own order; every failed
\* input is logged and skipped, and every input is processed whatever
\* happened to the inputs before it.
C5_PdfMergeSkipsFailedInputs ==
    PdfMergeRan =>
        LET pages == conv.work.pages
        IN  /\ Len(pages) = Cardinality(UsablePages)
            /\ Range(pages) = UsablePages
            /\ \A a, b \in 1..Len(pages) :
                  a < b => \/ pages[a][1] < pages[b][1]
                           \/ pages[a][1] = pages[b][1] /\ pages[a][2] < pages[b][2]
            /\ Ascending(conv.work.errors, FailedPdfs)
            /\ conv.work.processed = [i \in 1..Len(input_paths) |-> i]
            /\ UsablePages # {} =>
                  /\ conv.returned = MERGED_DOCUMENT
                  /\ conv.raised = NoneVal
                  /\ pc = "respond" => MERGED_DOCUMENT \in fs
                  /\ pc \in {"cleanup", "done"} => outcome.kind = "download"

C5_Witness ==
    /\ pc = "done"
    /\ PdfMergeRan
    /\ env.pdfs = <<[opens |-> FALSE, pages |-> 0], [opens |-> TRUE, pages |-> 1],
                    [opens |-> TRUE, pages |-> 2]>>
    /\ Len(conv.work.pages) = 3
    /\ conv.work.errors = <<1>>
    /\ outcome.kind = "download"

\* C6: a PDF merge in which every input fails to open, or the opened inputs
\* hold no page, fails with the no-usable-input error, and no
\* merged_document.pdf is in the working directory.
C6_PdfMergeNoUsableInput ==
    (PdfMergeRan /\ UsablePages = {}) =>
        /\ conv.raised = ERR_NO_PDF_PAGES
        /\ conv.returned = NoneVal
        /\ MERGED_DOCUMENT \notin fs
        /\ pc \in {"cleanup", "done"} =>
              outcome = Redirect("PDF merge failed", ERR_NO_PDF_PAGES)

C6_Witness ==
    /\ pc = "respond"
    /\ PdfMergeRan
    /\ Len(env.pdfs) = 3
    /\ \A i \in 1..3 : ~env.pdfs[i].opens
    /\ conv.raised = ERR_NO_PDF_PAGES
    /\ temp_dir
    /\ MERGED_DOCUMENT \notin fs

ImageMergeRan == req.conversion_type = "merge_images" /\ conv.called = 1

SurvivingImages == {i \in 1..Len(env.images) : env.images[i].opens}

\* C7: image merge skips and logs an image that fails to open or
\* normalize and goes on with the batch; the output has one page per
\* surviving image, in input order; it fails, writing no output file, if
\* and only if no image survives.
C7_ImageMergeFailSoft ==
    ImageMergeRan =>
        LET pages == conv.work.pages
        IN  /\ Ascending([k \in 1..Len(pages) |-> pages[k].src], SurvivingImages)
            /\ Ascending(conv.work.errors, (1..Len(env.images)) \ SurvivingImages)
            /\ conv.work.processed = [i \in 1..Len(input_paths) |-> i]
            /\ (conv.raised # NoneVal) <=> (SurvivingImages = {})
            /\ conv.raised # NoneVal =>
                  /\ conv.raised = ERR_NO_IMAGES
                  /\ conv.returned = NoneVal
                  /\ MERGED_IMAGES \notin fs
            /\ conv.raised = NoneVal =>
                  /\ conv.returned = MERGED_IMAGES
                  /\ pc = "respond" => MERGED_IMAGES \in fs

C7_Witness ==
    /\ pc = "respond"
    /\ ImageMergeRan
    /\ Len(env.images) = 3
    /\ ~env.images[1].opens
    /\ env.images[2].opens
    /\ ~env.images[3].opens
    /\ Len(conv.work.pages) = 1
    /\ conv.work.errors = <<1, 3>>
    /\ conv.returned = MERGED_IMAGES

(***************************************************************************)
(* Image merge on batches that probe the 2000 px cap: the handler stands   *)
(* before the call of convert, the uploads saved.                          *)
(***************************************************************************)
\* largest side, in pixels, of an uploaded image
MaxDim == 6000

Dims ==
    {1, 2, 3, 999, 1000, 1333, max_size - 1, max_size, max_size + 1, max_size + 2,
     3000, 2 * max_size, 2 * max_size + 1, MaxDim}

SmallImage == [opens |-> TRUE, mode |-> "RGB", w |-> 800, h |-> 600]

\* batches of n images: one of any size, the others small or unreadable
SizedBatches(n) ==
    {[b EXCEPT ![k] = [opens |-> TRUE, mode |-> "RGB", w |-> d[1], h |-> d[2]]] :
        b \in [1..n -> {BrokenImage, SmallImage}], k \in 1..n, d \in Dims \X Dims}

ImageBatchRequest(n) ==
    [conversion_type |-> "merge_images", has_file |-> FALSE, filename |-> "",
     files |-> [i \in 1..n |-> "a.png"]]

InitImages ==
    \E n \in 2..MaxFiles :
        /\ pc = "convert"
        /\ req = ImageBatchRequest(n)
        /\ temp_dir = TRUE
        /\ input_paths = upload_names(ImageBatchRequest(n))
        /\ fs = Range(upload_names(ImageBatchRequest(n)))
        /\ env = NoEnv
        /\ conv = NoConv
        /\ outcome = NoOutcome
        /\ calls = [NoCalls EXCEPT !.mkdtemp = 1, !.save = n]
        /\ proc = "none"
        /\ orphans = 0
        /\ registry = InitialRegistry

\* handle_image_merge lines 333-334, on a batch that probes the cap
convert_sized_images ==
    /\ pc = "convert"
    /\ req.conversion_type = "merge_images"
    /\ \E images \in SizedBatches(Len(input_paths)) :
          Converted([NoEnv EXCEPT !.images = images], merge_images_convert(images), proc)

NextImages ==
    \/ convert_sized_images
    \/ respond
    \/ cleanup

SpecImages == InitImages /\ [][NextImages]_vars

Min2(a, b) == IF a <= b THEN a ELSE b

Oversized(image) == image.w > 2000 \/ image.h > 2000

\* the page keeps the image's orientation, its longer side is exactly
\* 2000, and its shorter side is the exact scaled value rounded down or up,
\* and at least 1
ScaledToCap(image, page) ==
    LET long   == Max2(image.w, image.h)
        short  == Min2(image.w, image.h)
        pshort == Min2(page.w, page.h)
    IN  /\ Max2(page.w, page.h) = 2000
        /\ image.w >= image.h => page.w = 2000
        /\ image.h >= image.w => page.h = 2000
        /\ pshort >= 1
        /\ Abs(pshort * long - 2000 * short) < long

\* C8: in image merge the page of an image with a side over 2000 px has
\* its longer side equal to 2000 px and its shorter side scaled by the
\* same ratio to within rounding, never 0; an image within the cap keeps
\* its size; every readable image of the batch gets its page.
C8_OversizedImageScaledToCap ==
    ImageMergeRan =>
        /\ Len(conv.work.pages) = Cardinality(SurvivingImages)
        /\ \A k \in 1..Len(conv.work.pages) :
              LET page  == conv.work.pages[k]
                  image == env.images[page.src]
              IN  IF Oversized(image)
                  THEN ScaledToCap(image, page)
                  ELSE page.w = image.w /\ page.h = image.h

C8_Witness ==
    /\ pc = "respond"
    /\ ImageMergeRan
    /\ Len(env.images) = 3
    /\ SurvivingImages = {1, 2, 3}
    /\ env.images[2].w = MaxDim
    /\ env.images[2].h = 1
    /\ Len(conv.work.pages) = 3
    /\ conv.work.pages[2].w = 2000
    /\ conv.work.pages[2].h = 1
    /\ conv.work.pages[1].w = 800

(***************************************************************************)
(* Colour normalisation before encoding.                                   *)
(***************************************************************************)
\* the conversions whose output format has no alpha channel
OpaqueOutputTypes == {"png_to_jpg", "webp_to_jpg", "image_to_pdf", "merge_images"}

\* C9: in png_to_jpg, webp_to_jpg, image_to_pdf and merge_images an
\* input image in mode RGBA, LA or P is pasted onto an opaque white
\* background before it is encoded; none reaches the encoder through a
\* plain mode conversion.
C9_AlphaCompositedOnWhite ==
    (req.conversion_type \in OpaqueOutputTypes /\ conv.called = 1) =>
        \A k \in 1..Len(conv.work.encoded) :
            conv.work.encoded[k].mode_in \in AlphaModes =>
                conv.work.encoded[k].how = "paste_on_white"

(***************************************************************************)
(* The converters that spawn an external tool.                             *)
(***************************************************************************)
SubprocessRan ==
    /\ req.conversion_type \in SingleTypes
    /\ converters[req.conversion_type] \in SubprocessClasses
    /\ conv.called = 1

\* the messages raised for a tool that exited with a non-zero status
ExternalToolErrors == {ERR_FFMPEG, ERR_MP4_STDERR, ERR_LIBREOFFICE}

\* the messages raised for a tool that outlived its timeout
TimeoutErrors == {ERR_MP4_TIMEOUT, ERR_TIMEOUT_EXPIRED}

\* the messages the python-docx fallback of doc_to_pdf ends with
FallbackErrors == {ERR_DOC_EMPTY, ERR_DOC_NO_LIBS, ERR_LIBRARY}

ToolFailureRaises ==
    /\ env.tool.exit = "nonzero" =>
          conv.returned = NoneVal /\ conv.raised \in ExternalToolErrors
    /\ env.tool.exit = "timeout" =>
          conv.returned = NoneVal /\ conv.raised \in TimeoutErrors

\* C10 as claimed: in every subprocess-backed converter, doc_to_pdf
\* included, a non-zero exit of the tool makes convert fail with an
\* external-tool error and expiry of the timeout makes it fail with a
\* timeout error; convert returns no output path in either case.
C10_Original == SubprocessRan => ToolFailureRaises

\* C10: in the ffmpeg converters and pptx_to_pdf a non-zero exit makes
\* convert fail with an external-tool error and expiry of the timeout
\* with a timeout error, and convert returns no path; in doc_to_pdf either
\* failure of LibreOffice starts the python-docx fallback, and convert
\* returns the output path if and only if the fallback built the file,
\* and else fails with the fallback's error.
C10_ToolFailureRaisesExceptDoc ==
    SubprocessRan =>
        IF req.conversion_type # "doc_to_pdf"
        THEN ToolFailureRaises
        ELSE env.tool.exit \in {"nonzero", "timeout"} =>
                /\ env.fallback # "not_run"
                /\ (conv.returned # NoneVal) <=> (env.fallback = "built")
                /\ env.fallback = "built" => conv.raised = NoneVal
                /\ env.fallback # "built" => conv.raised \in FallbackErrors

C10_Witness ==
    /\ pc = "respond"
    /\ SubprocessRan
    /\ req.conversion_type = "doc_to_pdf"
    /\ env.tool.exit = "timeout"
    /\ env.fallback = "built"
    /\ conv.returned = "a.pdf"
    /\ conv.raised = NoneVal

(***************************************************************************)
(* Timeouts and what they leave behind.                                    *)
(***************************************************************************)
SubprocessTimedOut == SubprocessRan /\ env.tool.exit = "timeout"

\* the handler has built its answer to the client
Answered == pc \in {"cleanup", "done"}

\* the handler has returned
JobReturned == pc = "done"

\* the path at which the converter of the current request writes its output
OutputPath == output_name(converters[req.conversion_type], input_paths[1])

TimeoutReported == outcome.kind = "redirect" /\ outcome.detail \in TimeoutErrors

\* C11 as claimed: a subprocess-backed conversion that exceeds its timeout
\* ends in a timeout error, and once the job has returned no partial output
\* file of the conversion is in the job's working directory.
C11_Original ==
    SubprocessTimedOut =>
        /\ Answered => TimeoutReported
        /\ JobReturned => OutputPath \notin fs

\* C11: a timeout of the ffmpeg converters or of pptx_to_pdf ends the job
\* in a timeout error; a timeout of doc_to_pdf ends it in a download if the
\* python-docx fallback built the PDF and in the fallback's error if not;
\* in every case rmtree has been called once when the job has returned,
\* and unless rmtree itself raised neither the working directory nor any
\* file in it is left.
C11_TimeoutLeavesNothing ==
    SubprocessTimedOut =>
        /\ (Answered /\ req.conversion_type # "doc_to_pdf") => TimeoutReported
        /\ (Answered /\ req.conversion_type = "doc_to_pdf") =>
              IF env.fallback = "built"
              THEN outcome.kind = "download"
              ELSE outcome.kind = "redirect" /\ outcome.detail \in FallbackErrors
        /\ JobReturned =>
              /\ calls.rmtree = 1
              /\ ~calls.rmtree_raised => (~temp_dir /\ fs = {})

C11_Witness ==
    /\ JobReturned
    /\ SubprocessTimedOut
    /\ req.conversion_type = "mp3_to_wav"
    /\ env.tool.wrote
    /\ outcome.kind = "redirect"
    /\ outcome.detail = ERR_TIMEOUT_EXPIRED
    /\ calls.rmtree = 1
    /\ ~temp_dir
    /\ fs = {}

(***************************************************************************)
(* The life of a spawned tool.                                             *)
(***************************************************************************)
\* convert has returned or raised
ConvertReturned == pc \in {"respond", "cleanup", "done"}

\* C12: a job that spawns an external tool waits for it: while the child
\* runs, convert has not returned and the client has no answer; when the
\* timeout expires the child is killed before the failure goes up; so in
\* every state in which convert has returned, with a path or an exception,
\* no child of the job is running.
C12_NoSubprocessOutlivesJob ==
    /\ proc = "running" =>
          (pc = "tool" /\ conv.called = 0 /\ outcome = NoOutcome)
    /\ ConvertReturned => proc # "running"
    /\ (ConvertReturned /\ SubprocessRan) =>
          CASE env.tool.exit = "timeout"  -> proc = "killed"
            [] env.tool.exit = "notfound" -> proc = "none"
            [] OTHER                      -> proc = "exited"

C12_Witness ==
    /\ pc = "done"
    /\ req.conversion_type = "mp4_to_avi"
    /\ conv.called = 1
    /\ env.tool.exit = "timeout"
    /\ proc = "killed"
    /\ outcome.kind = "redirect"

(***************************************************************************)
(* What is delivered.                                                      *)
(***************************************************************************)
Delivered == outcome.kind = "download"

\* convert came back without an exception
ReportedSuccess == conv.called = 1 /\ conv.raised = NoneVal

\* the answer of the handlers when the output check fails (lines 183-185,
\* 263-265, 336-338)
OutputMissingMessages ==
    {"Conversion failed. Please try again.", "PDF merge failed. Please try again.",
     "Image merge failed. Please try again."}

\* C13: for every conversion type a file is delivered only if convert
\* returned a path and a file is at that path in the working directory;
\* when convert reports success but no file is at the path it returned, as
\* the ffmpeg converters may do, the job ends in a failure and nothing is
\* delivered.
C13_DeliveredOnlyIfOutputExists ==
    /\ Delivered => (ReportedSuccess /\ conv.returned # NoneVal)
    /\ pc = "cleanup" =>
          /\ Delivered => conv.returned \in fs
          /\ (ReportedSuccess /\ conv.returned \notin fs) =>
                /\ outcome.kind = "redirect"
                /\ outcome.flash \in OutputMissingMessages
    /\ pc \in {"idle", "dispatch", "mkdtemp", "save", "convert", "tool", "respond"} =>
          ~Delivered

C13_Witness ==
    /\ pc = "cleanup"
    /\ req.conversion_type = "mp3_to_wav"
    /\ env.tool = [exit |-> "zero", wrote |-> FALSE]
    /\ conv.returned = "a.wav"
    /\ conv.raised = NoneVal
    /\ "a.wav" \notin fs
    /\ outcome.kind = "redirect"
    /\ outcome.flash = "Conversion failed. Please try again."

(***************************************************************************)
(* Where the output is, and the MIME type that goes with it.               *)
(***************************************************************************)
\* the path temp_dir/name lies in temp_dir itself, not above or below it
DirectlyUnderWorkingDir(name) ==
    /\ name \notin {"", ".", ".."}
    /\ ~contains(name, "/")
    /\ ~contains(name, "\\")

\* C14: every path that convert returns, in a single-input conversion or
\* a merge, lies directly under the working directory given to the call,
\* and the MIME type delivered with the file is the output_mimetype of the
\* converter registered for the conversion type.
C14_OutputUnderWorkingDirWithDeclaredMime ==
    /\ (ConvertReturned /\ conv.called = 1 /\ conv.returned # NoneVal) =>
          DirectlyUnderWorkingDir(conv.returned)
    /\ Delivered =>
          outcome.mimetype = output_mimetype[converters[req.conversion_type]]

C14_Witness ==
    /\ pc = "done"
    /\ req.conversion_type = "png_to_jpg"
    /\ req.filename = "x/a.png"
    /\ conv.returned = "x_a.jpg"
    /\ Delivered
    /\ outcome.mimetype = "image/jpeg"

(***************************************************************************)
(* Every request gets an answer, whatever went before.                     *)
(***************************************************************************)
\* the validation of the current request
ValidationOf(r) ==
    CASE r.conversion_type = "merge_pdfs"   -> validate_pdf_merge(r.files)
      [] r.conversion_type = "merge_images" -> validate_image_merge(r.files)
      [] OTHER                              -> validate_single(r)

\* what convert gives for the request under the environment of the job
ConvertOf(r, e) ==
    CASE r.conversion_type = "merge_pdfs"   -> merge_pdfs_convert(e.pdfs)
      [] r.conversion_type = "merge_images" -> merge_images_convert(e.images)
      [] OTHER -> run_converter(converters[r.conversion_type], e, upload_names(r)[1])

\* the answer to request r in a process that has handled nothing before:
\* saved uploads were stored, e is what the environment did to the job
FreshOutcome(r, saved, e) ==
    IF ValidationOf(r) # "ok"
    THEN Redirect(ValidationOf(r), "")
    ELSE IF saved < Len(upload_names(r))
         THEN Redirect(FailedMessage(r.conversion_type), ERR_SAVE)
         ELSE LET c == ConvertOf(r, e)
              IN  respond_outcome(r, [returned |-> c.returned, raised |-> c.raised],
                                  Range(upload_names(r)) \cup c.wrote, upload_names(r))

ClientFacing(o) ==
    \/ o.kind = "download" /\ o.download_name # ""
    \/ o.kind = "redirect" /\ o.flash # ""

\* no exception has left the handler, and the answer of a finished request
\* is the one a fresh process gives, whatever earlier requests left behind
AnswerStands ==
    /\ outcome.kind # "exception"
    /\ pc = "done" =>
          /\ ClientFacing(outcome)
          /\ outcome = FreshOutcome(req, calls.save, env)

\* how far the handler has come
PcRank(p) ==
    CASE p = "idle" -> 0 [] p = "dispatch" -> 1 [] p = "mkdtemp" -> 2 [] p = "save" -> 3
      [] p = "convert" -> 4 [] p = "tool" -> 5 [] p = "respond" -> 6 [] p = "cleanup" -> 7
      [] OTHER -> 8

\* the messages the validation of a request can flash
ValidationMessages ==
    {MSG_NO_FILE, MSG_INVALID_TYPE, MSG_INVALID_FILE_TYPE, MSG_PDF_MIN_FILES,
     MSG_PDF_NOT_PDF, MSG_PDF_MIN_VALID, MSG_IMG_MIN_FILES, MSG_IMG_NOT_IMAGE,
     MSG_IMG_MIN_VALID}

\* a handler that has not returned can take its next step: the validation
\* of a request ends in "ok" or in one of its messages, and saving the
\* uploads is a step for every number of uploads
NeverStuck ==
    CASE pc = "dispatch" -> ValidationOf(req) \in {"ok"} \cup ValidationMessages
      [] pc = "mkdtemp"  -> ENABLED mkdtemp
      [] pc = "save"     -> 0 \in 0..Len(upload_names(req))
      [] pc = "convert"  ->
            ENABLED (convert_single \/ spawn_tool \/ convert_merge_pdfs \/ convert_merge_images)
      [] pc = "tool"     -> ENABLED tool_returns
      [] pc = "respond"  -> ENABLED respond
      [] pc = "cleanup"  -> ENABLED cleanup
      [] OTHER           -> TRUE

\* C15: every request ends with a download or a redirect that carries a
\* message: the handler is never stuck and each of its steps brings it
\* nearer to its return; no exception of validation, of saving an upload,
\* of a converter or of the clean-up leaves the handler; after any
\* sequence of failed jobs a request is answered as a fresh process
\* answers it.
C15_EveryRequestAnswered ==
    /\ [](AnswerStands /\ NeverStuck)
    /\ [][pc # "done" => PcRank(pc') > PcRank(pc)]_vars

C15_Witness ==
    /\ pc = "done"
    /\ orphans = 1
    /\ calls.rmtree_raised
    /\ req.conversion_type = "png_to_jpg"
    /\ req.filename = "a.png"
    /\ env.image.opens
    /\ outcome.kind = "download"
    /\ outcome.download_name = "a.jpg"

(***************************************************************************)
(* The life of the working directory.                                      *)
(***************************************************************************)
\* this step calls rmtree on the working directory
RmtreeStep == calls'.rmtree = calls.rmtree + 1

\* rmtree is not called before convert has returned (or a save has failed
\* and convert is never called), nor before the answer is built; when
\* convert has left a file at the path it returned, the answer built is
\* the download
DeletionInOrder ==
    RmtreeStep =>
        /\ pc = "cleanup"
        /\ temp_dir
        /\ proc # "running"
        /\ conv.called = 1 \/ outcome.detail = ERR_SAVE
        /\ outcome.kind \in {"download", "redirect"}
        /\ (ReportedSuccess /\ conv.returned \in fs) => outcome.kind = "download"

\* C16 as claimed: every working directory created for a job is deleted
\* when the handler returns, on every path, and never before convert has
\* returned nor, on success, before the download response is built.
C16_Original ==
    /\ []((pc = "done" /\ calls.mkdtemp = 1) => ~temp_dir)
    /\ [][DeletionInOrder]_vars

\* C16: on every path on which a working directory was created (delivery,
\* converter exception, missing output file, failed save) the handler
\* calls rmtree on it exactly once before it returns, never before convert
\* has returned nor, on success, before the download response is built;
\* the directory and its files are gone when the handler returns unless
\* rmtree itself raised, and then the directory stays; a request that
\* created no directory calls no rmtree.
C16_WorkingDirRemovedUnlessRmtreeFails ==
    /\ [](pc = "done" =>
            /\ calls.rmtree = calls.mkdtemp
            /\ calls.mkdtemp <= 1
            /\ temp_dir <=> calls.rmtree_raised
            /\ ~temp_dir => fs = {})
    /\ [](pc \in {"save", "convert", "tool", "respond", "cleanup"} =>
            (temp_dir /\ calls.rmtree = 0))
    /\ [][DeletionInOrder]_vars

C16_Witness ==
    /\ pc = "done"
    /\ req.conversion_type = "merge_pdfs"
    /\ Len(upload_names(req)) = 3
    /\ calls.save = 1
    /\ outcome.detail = ERR_SAVE
    /\ conv.called = 0
    /\ calls.mkdtemp = 1
    /\ calls.rmtree = 1
    /\ ~calls.rmtree_raised
    /\ ~temp_dir
    /\ fs = {}

(***************************************************************************)
(* Two requests handled at the same time by two workers on one file        *)
(* system.  The variables hold one value per job; fs maps a directory to   *)
(* its state; calls is the log of file system accesses.                    *)
(***************************************************************************)
Jobs == {1, 2}

\* names that tempfile.mkdtemp may return
MaxDirs == 2

Dirs == 1..MaxDirs

NoDir == [exists |-> FALSE, owner |-> 0, files |-> {}]

\* requests that pass validation; both jobs may carry the same one
JobRequests ==
    {[conversion_type |-> "png_to_jpg", has_file |-> TRUE, filename |-> "a.png",
      files |-> <<>>],
     [conversion_type |-> "mp3_to_wav", has_file |-> TRUE, filename |-> "a.mp3",
      files |-> <<>>],
     [conversion_type |-> "pdf_to_png", has_file |-> TRUE, filename |-> "a.pdf",
      files |-> <<>>],
     [conversion_type |-> "merge_pdfs", has_file |-> FALSE, filename |-> "",
      files |-> <<"a.pdf", "a.pdf">>]}

OnePagePdf == [opens |-> TRUE, pages |-> 1]

\* what the environment may do to the job of request r
JobEnvs(r) ==
    CASE r.conversion_type = "png_to_jpg" ->
            {[NoEnv EXCEPT !.image = BrokenImage], [NoEnv EXCEPT !.image = SmallImage]}
      [] r.conversion_type = "mp3_to_wav" ->
            {[NoEnv EXCEPT !.tool = [exit |-> "zero", wrote |-> TRUE]],
             [NoEnv EXCEPT !.tool = [exit |-> "zero", wrote |-> FALSE]],
             [NoEnv EXCEPT !.tool = [exit |-> "timeout", wrote |-> TRUE]]}
      [] r.conversion_type = "pdf_to_png" ->
            {[NoEnv EXCEPT !.pdfs = <<[opens |-> TRUE, pages |-> MaxPages]>>, !.lib = "ok"],
             [NoEnv EXCEPT !.pdfs = <<OnePagePdf>>, !.lib = "zip"]}
      [] OTHER ->
            {[NoEnv EXCEPT !.pdfs = <<OnePagePdf, OnePagePdf>>],
             [NoEnv EXCEPT !.pdfs = <<[opens |-> FALSE, pages |-> 0], OnePagePdf>>]}

ERR_INPUT == "No such file or directory: input"

\* an access of job j to directory d: foreign if d is not a directory
\* that j created
Access(j, d, op) ==
    [job |-> j, dir |-> d, op |-> op, foreign |-> (~fs[d].exists \/ fs[d].owner # j)]

mkdtemp_fixed(existing) == {1}

mkdtemp_reuse(existing) == Dirs

\* tempfile.mkdtemp(): a directory of a name that does not exist
mkdtemp_names(existing) == Dirs \ existing

InitJobs ==
    /\ pc = [j \in Jobs |-> "mkdtemp"]
    /\ req \in [Jobs -> JobRequests]
    /\ temp_dir = [j \in Jobs |-> 0]
    /\ fs = [d \in Dirs |-> NoDir]
    /\ input_paths = [j \in Jobs |-> <<>>]
    /\ env = [j \in Jobs |-> NoEnv]
    /\ conv = [j \in Jobs |-> NoConv]
    /\ outcome = [j \in Jobs |-> NoOutcome]
    /\ calls = {}
    /\ proc = "none"
    /\ orphans = 0
    /\ registry = InitialRegistry

\* temp_dir = tempfile.mkdtemp()
job_mkdtemp(j) ==
    /\ pc[j] = "mkdtemp"
    /\ \E d \in mkdtemp_names({x \in Dirs : fs[x].exists}) :
          /\ temp_dir' = [temp_dir EXCEPT ![j] = d]
          /\ fs' = [fs EXCEPT ![d] = IF fs[d].exists
                                     THEN fs[d]
                                     ELSE [exists |-> TRUE, owner |-> j, files |-> {}]]
    /\ pc' = [pc EXCEPT ![j] = "save"]
    /\ UNCHANGED <<req, input_paths, env, conv, outcome, calls, proc, orphans, registry>>

\* file.save(os.path.join(temp_dir, filename)) for each upload
job_save(j) ==
    /\ pc[j] = "save"
    /\ LET d == temp_dir[j]
           names == upload_names(req[j])
       IN  /\ calls' = calls \cup {Access(j, d, "write")}
           /\ IF fs[d].exists
              THEN /\ fs' = [fs EXCEPT ![d].files = @ \cup Range(names)]
                   /\ input_paths' = [input_paths EXCEPT ![j] = names]
                   /\ pc' = [pc EXCEPT ![j] = "convert"]
                   /\ outcome' = outcome
              ELSE /\ fs' = fs
                   /\ input_paths' = input_paths
                   /\ pc' = [pc EXCEPT ![j] = "cleanup"]
                   /\ outcome' = [outcome EXCEPT ![j] =
                                     Redirect(FailedMessage(req[j].conversion_type), ERR_SAVE)]
    /\ UNCHANGED <<req, temp_dir, env, conv, proc, orphans, registry>>

\* converter.convert(input_path, temp_dir): it reads the saved uploads and
\* writes its output into temp_dir
job_convert(j) ==
    /\ pc[j] = "convert"
    /\ \E e \in JobEnvs(req[j]) :
          LET d == temp_dir[j]
              r == IF fs[d].exists /\ Range(input_paths[j]) \subseteq fs[d].files
                   THEN ConvertOf(req[j], e)
                   ELSE Raised(ERR_INPUT, {}, NoWork)
          IN  /\ env' = [env EXCEPT ![j] = e]
              /\ conv' = [conv EXCEPT ![j] = [called |-> 1, returned |-> r.returned,
                                              raised |-> r.raised, work |-> r.work]]
              /\ fs' = IF fs[d].exists
                       THEN [fs EXCEPT ![d].files = @ \cup r.wrote]
                       ELSE fs
              /\ calls' = calls \cup {Access(j, d, "read"), Access(j, d, "write")}
    /\ pc' = [pc EXCEPT ![j] = "respond"]
    /\ UNCHANGED <<req, temp_dir, input_paths, outcome, proc, orphans, registry>>

\* the output check and send_file
job_respond(j) ==
    /\ pc[j] = "respond"
    /\ outcome' = [outcome EXCEPT ![j] =
                      respond_outcome(req[j], conv[j], fs[temp_dir[j]].files, input_paths[j])]
    /\ calls' = calls \cup {Access(j, temp_dir[j], "read")}
    /\ pc' = [pc EXCEPT ![j] = "cleanup"]
    /\ UNCHANGED <<req, temp_dir, fs, input_paths, env, conv, proc, orphans, registry>>

\* the finally clause
job_cleanup(j) ==
    /\ pc[j] = "cleanup"
    /\ LET d == temp_dir[j]
       IN  /\ \E raised \in BOOLEAN :
                 fs' = [fs EXCEPT ![d] =
                           IF rmtree(fs[d].files, raised \/ ~fs[d].exists).exists
                           THEN fs[d]
                           ELSE NoDir]
           /\ calls' = calls \cup {Access(j, d, "delete")}
    /\ pc' = [pc EXCEPT ![j] = "done"]
    /\ UNCHANGED <<req, temp_dir, input_paths, env, conv, outcome, proc, orphans, registry>>

NextJobs ==
    \E j \in Jobs :
        \/ job_mkdtemp(j)
        \/ job_save(j)
        \/ job_convert(j)
        \/ job_respond(j)
        \/ job_cleanup(j)

SpecJobs == InitJobs /\ [][NextJobs]_vars

\* both jobs hold a working directory at this moment
BothAtWork == \A j \in Jobs : pc[j] \in {"save", "convert", "respond", "cleanup"}

\* C17: in every interleaving of two jobs, jobs of the same conversion
\* type with the same upload names included, the two working directories
\* differ while both jobs are at work, no job reads, writes or deletes
\* in a directory that is not its own, and the outcome of each job is the
\* outcome of that job run alone.
C17_JobsAreIsolated ==
    /\ BothAtWork => temp_dir[1] # temp_dir[2]
    /\ \A a \in calls : ~a.foreign
    /\ \A j \in Jobs :
          pc[j] \in {"cleanup", "done"} =>
              outcome[j] = FreshOutcome(req[j], Len(upload_names(req[j])), env[j])

C17_Witness ==
    /\ pc = [j \in Jobs |-> "done"]
    /\ req[1] = req[2]
    /\ req[1].conversion_type = "png_to_jpg"
    /\ env[1].image = SmallImage
    /\ env[2].image = BrokenImage
    /\ outcome[1].kind = "download"
    /\ outcome[2].kind = "redirect"
    /\ Cardinality(calls) = 6
    /\ \A d \in Dirs : ~fs[d].exists

(***************************************************************************)
(* A tool that is not installed.                                           *)
(***************************************************************************)
ToolMissing == SubprocessRan /\ env.tool.exit = "notfound"

\* the messages that tell of a missing executable
ToolNotFoundErrors == {ERR_NOT_FOUND, ERR_DOC_NO_LIBS}

ToolNotFoundReported ==
    /\ outcome.kind = "redirect"
    /\ outcome.flash = "Conversion failed"
    /\ outcome.detail \in ToolNotFoundErrors

\* C18 as claimed: when the executable of any subprocess-backed converter,
\* doc_to_pdf included, is not installed the job ends in a conversion
\* failure reported as a tool-not-found error, and no exception leaves the
\* handler.
C18_Original ==
    /\ outcome.kind # "exception"
    /\ (ToolMissing /\ Answered) => ToolNotFoundReported

\* C18: when ffmpeg is not installed, or libreoffice in pptx_to_pdf, the
\* job ends in a conversion failure whose message is that of the missing
\* executable; when libreoffice is not installed in doc_to_pdf the
\* python-docx fallback runs, and the job ends in a download if the
\* fallback built the PDF, in the neither-tool-nor-library error if the
\* libraries are missing too, and in the fallback's own error otherwise;
\* no exception leaves the handler.
C18_MissingToolReportedExceptDoc ==
    /\ outcome.kind # "exception"
    /\ (ToolMissing /\ Answered) =>
          IF req.conversion_type # "doc_to_pdf"
          THEN ToolNotFoundReported /\ outcome.detail = ERR_NOT_FOUND
          ELSE CASE env.fallback = "built" -> outcome.kind = "download"
                 [] env.fallback = "import_error" ->
                       ToolNotFoundReported /\ outcome.detail = ERR_DOC_NO_LIBS
                 [] OTHER ->
                       /\ outcome.kind = "redirect"
                       /\ outcome.detail \in {ERR_DOC_EMPTY, ERR_LIBRARY}

C18_Witness ==
    /\ pc = "done"
    /\ req.conversion_type = "pptx_to_pdf"
    /\ ToolMissing
    /\ proc = "none"
    /\ outcome.kind = "redirect"
    /\ outcome.flash = "Conversion failed"
    /\ outcome.detail = ERR_NOT_FOUND

(***************************************************************************)
(* Output file names.                                                      *)
(***************************************************************************)
\* the target format of a conversion type is the last word of its name
TargetExtension(t) ==
    LET i == CHOOSE k \in 1..Len(t) :
                 Ch(t, k) = "_" /\ \A m \in (k + 1)..Len(t) : Ch(t, m) # "_"
    IN  "." \o SubSeq(t, i + 1, Len(t))

\* the name of the saved upload without its extension
InputBaseName ==
    LET name == input_paths[1]
        i == CHOOSE k \in 1..Len(name) :
                 Ch(name, k) = "." /\ \A m \in (k + 1)..Len(name) : Ch(name, m) # "."
    IN  IF \E k \in 2..Len(name) : Ch(name, k) = "." THEN SubSeq(name, 1, i - 1) ELSE name

SingleReturned ==
    /\ req.conversion_type \in SingleTypes
    /\ conv.called = 1
    /\ conv.returned # NoneVal

MergeReturned ==
    /\ req.conversion_type \in MergeTypes
    /\ conv.called = 1
    /\ conv.returned # NoneVal

FixedMergeNames ==
    /\ req.conversion_type = "merge_pdfs" => conv.returned = "merged_document.pdf"
    /\ req.conversion_type = "merge_images" => conv.returned = "merged_images.pdf"

\* C19 as claimed: every single-input type but pdf_to_png names its output
\* by the input base name plus the target extension; the merges use fixed
\* names and the archive of pdf_to_png a page-suffixed name.
C19_Original ==
    /\ SingleReturned =>
          IF req.conversion_type = "pdf_to_png"
          THEN conv.returned = InputBaseName \o "_pages.zip"
          ELSE conv.returned = InputBaseName \o TargetExtension(req.conversion_type)
    /\ MergeReturned => FixedMergeNames

\* C19: every single-input type but pdf_to_png and compress_pdf names its
\* output by the input base name plus the target extension; compress_pdf
\* puts _compressed between the two; the archive of pdf_to_png is the base
\* name plus _pages.zip; the merges use fixed names.
C19_OutputNames ==
    /\ SingleReturned =>
          CASE req.conversion_type = "pdf_to_png" ->
                  conv.returned = InputBaseName \o "_pages.zip"
            [] req.conversion_type = "compress_pdf" ->
                  conv.returned = InputBaseName \o "_compressed" \o ".pdf"
            [] OTHER ->
                  conv.returned = InputBaseName \o TargetExtension(req.conversion_type)
    /\ MergeReturned => FixedMergeNames

C19_Witness ==
    /\ pc = "respond"
    /\ req.conversion_type = "compress_pdf"
    /\ req.filename = "a.PDF"
    /\ input_paths = <<"a.PDF">>
    /\ conv.returned = "a_compressed.pdf"

(***************************************************************************)
(* C20: converting a PDF of n pages to PNG returns one ZIP archive with    *)
(* exactly n entries, one per page, named by the 1-based page number in    *)
(* page order; on a successful return the per-page image files and their   *)
(* directory are gone from the working directory, which then holds the     *)
(* archive next to the saved upload and nothing else.                      *)
(***************************************************************************)
PageLabel(i) == CASE i = 1 -> "001" [] i = 2 -> "002" [] i = 3 -> "003" [] OTHER -> "00?"

RasterReturned ==
    /\ req.conversion_type = "pdf_to_png"
    /\ SingleReturned

C20_RasterArchive ==
    RasterReturned =>
        LET n == env.pdfs[1].pages
        IN  /\ conv.returned = InputBaseName \o "_pages.zip"
            /\ Len(conv.work.pages) = n
            /\ \A i \in 1..n :
                   conv.work.pages[i] = InputBaseName \o "_page_" \o PageLabel(i) \o ".png"
            /\ pc = "respond" => fs = {input_paths[1], conv.returned}

C20_Witness ==
    /\ pc = "respond"
    /\ RasterReturned
    /\ env.pdfs[1].pages = 2
    /\ conv.returned = "a_pages.zip"
    /\ conv.work.pages = <<"a_page_001.png", "a_page_002.png">>
    /\ fs = {input_paths[1], "a_pages.zip"}

(***************************************************************************)
(* The registry: the two tables of app.py and the MIME types the           *)
(* converter classes declare.                                              *)
(***************************************************************************)
\* the entry of one conversion type: extensions, converter, MIME type
RegistryEntry(t) ==
    /\ t \in DOMAIN ALLOWED_EXTENSIONS
    /\ ALLOWED_EXTENSIONS[t] # {}
    /\ \A e \in ALLOWED_EXTENSIONS[t] : e # "" /\ lower(e) = e
    /\ t \in DOMAIN converters
    /\ converters[t] \in DOMAIN output_mimetype
    /\ output_mimetype[converters[t]] # ""

\* the request now being handled got past validation
LookedUp == pc \in {"mkdtemp", "save", "convert", "tool", "respond", "cleanup"}

\* C21: the accepted-extension table and the converter table have the same
\* conversion types as keys, every type accepts at least one extension, and
\* every type has one converter with one declared output MIME type; a
\* request that got past validation names such a type.  The tables are
\* module-level literals, examined wherever the server awaits a request.
C21_RegistryTotalAndConsistent ==
    /\ pc = "idle" =>
          /\ DOMAIN ALLOWED_EXTENSIONS = DOMAIN converters
          /\ \A t \in DOMAIN ALLOWED_EXTENSIONS \cup DOMAIN converters : RegistryEntry(t)
    /\ LookedUp => RegistryEntry(req.conversion_type)

C21_Witness ==
    /\ pc = "cleanup"
    /\ req.conversion_type = "merge_images"
    /\ outcome.kind = "download"
    /\ outcome.mimetype = output_mimetype[converters["merge_images"]]

\* C22: whatever requests were handled before (accepted or rejected,
\* succeeded or failed), the accepted-extension table, the converter table,
\* the MIME type each converter declares and the converter instances are
\* what they were when the module was loaded, so a lookup of a type gives
\* the same converter and MIME type every time.
C22_RegistryReadOnly ==
    /\ registry = InitialRegistry
    /\ \A t \in ConversionTypes :
           /\ registry.converters[t] = converters[t]
           /\ registry.output_mimetype[t] = output_mimetype[converters[t]]
           /\ registry.attributes[t] = {}
    /\ (outcome.kind = "download" /\ req.conversion_type \in SingleTypes) =>
           outcome.mimetype = registry.output_mimetype[req.conversion_type]

C22_Witness ==
    /\ pc = "done"
    /\ orphans = 1
    /\ req.conversion_type = "png_to_jpg"
    /\ conv.called = 1
    /\ outcome.kind = "download"
    /\ outcome.mimetype = "image/jpeg"

(***************************************************************************)
(* The extension check and the case of the extension's letters.            *)
(***************************************************************************)
\* str.upper() on one character
UpperCh(c) ==
    CASE c = "a" -> "A" [] c = "b" -> "B" [] c = "c" -> "C"
      [] c = "d" -> "D" [] c = "e" -> "E" [] c = "f" -> "F"
      [] c = "g" -> "G" [] c = "h" -> "H" [] c = "i" -> "I"
      [] c = "j" -> "J" [] c = "k" -> "K" [] c = "l" -> "L"
      [] c = "m" -> "M" [] c = "n" -> "N" [] c = "o" -> "O"
      [] c = "p" -> "P" [] c = "q" -> "Q" [] c = "r" -> "R"
      [] c = "s" -> "S" [] c = "t" -> "T" [] c = "u" -> "U"
      [] c = "v" -> "V" [] c = "w" -> "W" [] c = "x" -> "X"
      [] c = "y" -> "Y" [] c = "z" -> "Z" [] OTHER -> c

RECURSIVE ExtVariants(_)
\* every spelling of an extension in a mix of upper and lower case
ExtVariants(e) ==
    IF e = "" THEN {""}
    ELSE {c \o rest : c \in {LowerCh(Head(e)), UpperCh(Head(e))},
                      rest \in ExtVariants(Tail(e))}

\* the names that differ from name only in the case of the letters after
\* its last dot (name itself when it has no dot)
CaseVariants(name) ==
    LET d == rfind(name, ".")
    IN  IF d = 0
        THEN {name}
        ELSE {SubSeq(name, 1, d) \o v : v \in ExtVariants(SubSeq(name, d + 1, Len(name)))}

\* the requests that differ from r in the case of one file name's extension
RequestVariants(r) ==
    IF r.conversion_type \in MergeTypes
    THEN {[r EXCEPT !.files[i] = v] :
             <<i, v>> \in UNION {{i} \X CaseVariants(r.files[i]) : i \in 1..Len(r.files)}}
    ELSE {[r EXCEPT !.filename = v] : v \in CaseVariants(r.filename)}

\* C23: for every conversion type, single-input or merge, and every file
\* name, the decision of the validation (accept, or the rejection it gives)
\* is the same for every spelling of the extension in upper and lower case:
\* a request that was accepted is accepted in every such spelling, and one
\* that was rejected is rejected with the same message.
C23_ExtensionCaseInsensitive ==
    /\ pc = "dispatch" =>
          \A v \in RequestVariants(req) : ValidationOf(v) = ValidationOf(req)
    /\ pc = "mkdtemp" =>
          \A v \in RequestVariants(req) : ValidationOf(v) = "ok"
    /\ (pc = "done" /\ calls.mkdtemp = 0) =>
          \A v \in RequestVariants(req) : ValidationOf(v) = outcome.flash

C23_Witness ==
    /\ pc = "mkdtemp"
    /\ req.conversion_type = "merge_images"
    /\ req.files = <<"a.JPG", "a.png">>
    /\ [req EXCEPT !.files[1] = "a.jPg"] \in RequestVariants(req)
    /\ [req EXCEPT !.files[2] = "a.PNG"] \in RequestVariants(req)

(***************************************************************************)
(* Sources without content.                                                *)
(***************************************************************************)
\* a text without a character that is not white space
Blank(text) == \A i \in 1..Len(text) : Ch(text, i) \in {" ", "\n", "\t"}

\* the uploaded source of the current conversion holds no content
EmptySource ==
    CASE req.conversion_type = "txt_to_pdf"  -> Blank(env.text)
      [] req.conversion_type = "docx_to_pdf" ->
            \A i \in 1..Len(env.paragraphs) : Blank(env.paragraphs[i])
      [] req.conversion_type = "csv_to_pdf"  -> Len(env.rows) = 0
      [] OTHER -> FALSE

EmptyContentErrors == {ERR_TXT_EMPTY, ERR_DOCX_EMPTY, ERR_CSV_EMPTY}

\* C24: txt_to_pdf on a file of white space only, docx_to_pdf on a document
\* without a non-blank paragraph and csv_to_pdf on a file without rows fail
\* with the empty-content error, and no output file is in the working
\* directory when the failure is raised: it holds the saved upload only.
\* Sources with content never get that error.
C24_EmptySourceRejected ==
    (conv.called = 1 /\ req.conversion_type \in {"txt_to_pdf", "docx_to_pdf", "csv_to_pdf"}) =>
        /\ EmptySource =>
              /\ conv.returned = NoneVal
              /\ conv.raised \in EmptyContentErrors
              /\ pc \in {"respond", "cleanup"} => fs = Range(input_paths)
              /\ pc \in {"cleanup", "done"} =>
                    outcome = Redirect("Conversion failed", conv.raised)
        /\ ~EmptySource => conv.raised \notin EmptyContentErrors

C24_Witness ==
    /\ pc = "cleanup"
    /\ req.conversion_type = "docx_to_pdf"
    /\ env.paragraphs = <<" ", "", "\t">>
    /\ conv.raised = ERR_DOCX_EMPTY
    /\ fs = {"a.docx"}
    /\ outcome.kind = "redirect"

(***************************************************************************)
(* No retries.                                                             *)
(***************************************************************************)
\* the converter of the current request starts an executable
SpawnsTool ==
    /\ req.conversion_type \in SingleTypes
    /\ converters[req.conversion_type] \in SpawningClasses

NoRetryInRequest ==
    /\ conv.called <= 1
    /\ calls.spawn <= 1
    /\ calls.spawn <= conv.called
    /\ (conv.called = 1 /\ SpawnsTool) => calls.spawn = 1
    /\ pc \in {"cleanup", "done"} => proc # "running"

\* within a request, convert is not called again once it was called, and
\* a child that has ended is not started again
NoSecondAttempt ==
    /\ conv.called = 1 => conv'.called \in {0, 1}
    /\ (conv.called = 1 /\ conv'.called = 1) => conv' = conv
    /\ proc \in {"exited", "killed"} => proc' \in {proc, "none"}

\* C25: within one request convert is invoked at most once and the
\* external executable is started at most once, whether the attempt
\* succeeded, failed or ran into its timeout.
C25_NoAutomaticRetry == []NoRetryInRequest /\ [][NoSecondAttempt]_vars

C25_Witness ==
    /\ pc = "done"
    /\ req.conversion_type = "mp4_to_mp3"
    /\ env.tool.exit = "timeout"
    /\ proc = "killed"
    /\ conv.called = 1
    /\ calls.spawn = 1
    /\ outcome.kind = "redirect"

(***************************************************************************)
(* Running a conversion twice (two jobs of the two-worker specification).  *)
(***************************************************************************)
\* jobs j and k ran convert on the same request, with the same uploaded
\* content and the same behaviour of the external tool
SameRun(j, k) ==
    /\ req[j] = req[k]
    /\ env[j] = env[k]
    /\ conv[j].called = 1
    /\ conv[k].called = 1

DocConverted ==
    /\ req.conversion_type = "doc_to_pdf"
    /\ conv.called = 1

\* LibreOffice exited with status 0 and its output file exists
LibreOfficeDelivered == env.tool.exit = "zero" /\ env.tool.wrote

\* C27: doc_to_pdf runs LibreOffice first; the python-docx/reportlab
\* fallback runs, once and after it, exactly when the LibreOffice attempt
\* failed (non-zero exit, timeout, executable missing, or exit 0 without
\* an output file); when the fallback fails too, convert raises and
\* returns no path.
C27_DocStrategiesInOrder ==
    DocConverted =>
        /\ env.tool.exit \in {"zero", "nonzero", "timeout", "notfound"}
        /\ LibreOfficeDelivered =>
              /\ conv.work.processed = <<"libreoffice">>
              /\ conv.returned = InputBaseName \o ".pdf"
              /\ conv.raised = NoneVal
        /\ ~LibreOfficeDelivered =>
              /\ conv.work.processed = <<"libreoffice", "fallback">>
              /\ env.fallback \in FallbackRuns
              /\ env.fallback = "built" =>
                    (conv.returned = InputBaseName \o ".pdf" /\ conv.raised = NoneVal)
              /\ env.fallback # "built" =>
                    (conv.returned = NoneVal /\ conv.raised # NoneVal)

C27_Witness ==
    /\ pc = "respond"
    /\ DocConverted
    /\ env.tool = [exit |-> "zero", wrote |-> FALSE]
    /\ env.fallback = "empty"
    /\ conv.work.processed = <<"libreoffice", "fallback">>
    /\ conv.returned = NoneVal
    /\ conv.raised = ERR_DOC_EMPTY

(***************************************************************************)
(* The saved inputs of a merge job.                                        *)
(***************************************************************************)
\* the uploads of the merge request that carry a name, in upload order
Uploaded == SelectSeq(req.files, LAMBDA n : n # "")

IndexLabel(i) == CASE i = 1 -> "01" [] i = 2 -> "02" [] i = 3 -> "03" [] i = 4 -> "04"
                   [] OTHER -> "??"

MergeSaved ==
    /\ req.conversion_type \in MergeTypes
    /\ pc \in {"convert", "respond"}

FixedOutput == IF req.conversion_type = "merge_pdfs" THEN "merged_document.pdf"
               ELSE "merged_images.pdf"

\* C28: in a merge job the uploads are saved under pairwise distinct
\* names, also when uploads share a file name; the i-th saved path belongs
\* to the i-th upload and the aggregator goes through them in that order;
\* no saved path is the aggregator's output path, so after a successful
\* merge every saved input and the output are separate files.
C28_MergeInputsDistinctAndOrdered ==
    MergeSaved =>
        /\ Len(input_paths) = Len(Uploaded)
        /\ \A i \in 1..Len(input_paths) : \A j \in 1..Len(input_paths) :
               i # j => input_paths[i] # input_paths[j]
        /\ \A i \in 1..Len(input_paths) :
               /\ SubSeq(input_paths[i], 1, 9) =
                     (IF req.conversion_type = "merge_pdfs" THEN "input_" ELSE "image_")
                         \o IndexLabel(i) \o "_"
               /\ SubSeq(input_paths[i], 10, Len(input_paths[i])) = Uploaded[i]
               /\ input_paths[i] # FixedOutput
               /\ input_paths[i] \in fs
        /\ conv.called = 1 =>
              /\ conv.work.processed = [i \in 1..Len(input_paths) |-> i]
              /\ conv.returned # NoneVal =>
                    /\ conv.returned = FixedOutput
                    /\ fs = Range(input_paths) \cup {FixedOutput}
                    /\ Cardinality(fs) = Len(Uploaded) + 1

C28_Witness ==
    /\ pc = "respond"
    /\ req.conversion_type = "merge_pdfs"
    /\ req.files = <<"a.pdf", "", "a.pdf">>
    /\ input_paths = <<"input_01_a.pdf", "input_02_a.pdf">>
    /\ conv.returned = "merged_document.pdf"
    /\ Cardinality(fs) = 3

(***************************************************************************)
(* The output of a single-input conversion and its input.                  *)
(***************************************************************************)
\* the upload of a single-input request was saved and convert is due or done
SingleSaved ==
    /\ req.conversion_type \in SingleTypes
    /\ pc \in {"convert", "tool", "respond", "cleanup"}
    /\ Len(input_paths) = 1

\* C29: for every registered single-input type and every file name that
\* passes its extension check, the path the converter writes its output to
\* is not the path the upload was saved under, so that after a successful
\* conversion the working directory holds the input and the output as two
\* files.
C29_OutputIsNotInput ==
    SingleSaved =>
        /\ input_paths[1] # ""
        /\ OutputPath # input_paths[1]
        /\ lower(OutputPath) # lower(input_paths[1])
        /\ conv.called = 1 => conv.returned # input_paths[1]
        /\ (pc = "respond" /\ conv.returned # NoneVal /\ conv.returned \in fs) =>
              /\ input_paths[1] \in fs
              /\ Cardinality(fs) = 2

C29_Witness ==
    /\ pc = "respond"
    /\ req.conversion_type = "compress_pdf"
    /\ req.filename = ".pdf"
    /\ input_paths = <<"pdf">>
    /\ conv.returned = "pdf_compressed.pdf"
    /\ fs = {"pdf", "pdf_compressed.pdf"}

(***************************************************************************)
(* The number in the download name of a merge.                             *)
(***************************************************************************)
CountLabel(n) == CASE n = 0 -> "0" [] n = 1 -> "1" [] n = 2 -> "2" [] n = 3 -> "3"
                   [] n = 4 -> "4" [] OTHER -> "?"

MergeDelivered ==
    /\ req.conversion_type \in MergeTypes
    /\ outcome.kind = "download"

\* the inputs that have a page in the merged document
PresentInputs ==
    {i \in 1..Len(input_paths) :
        \E k \in 1..Len(conv.work.pages) :
            IF req.conversion_type = "merge_pdfs"
            THEN conv.work.pages[k][1] = i
            ELSE conv.work.pages[k].src = i}

\* C30: the download name of a successful merge carries the number of
\* validated inputs that were handed to the aggregator, whatever the
\* number of inputs the aggregator skipped; it is the number of inputs
\* present in the merged document only if no input was skipped.
C30_MergeDownloadNameCount ==
    MergeDelivered =>
        /\ Len(input_paths) = Len(Uploaded)
        /\ Len(conv.work.processed) = Len(input_paths)
        /\ outcome.download_name =
              "merged_" \o CountLabel(Len(input_paths))
                  \o (IF req.conversion_type = "merge_pdfs" THEN "_pdfs.pdf" ELSE "_images.pdf")
        /\ Cardinality(PresentInputs) <= Len(input_paths) - Len(conv.work.errors)
        /\ Cardinality(PresentInputs) = Len(input_paths) => conv.work.errors = <<>>

C30_Witness ==
    /\ pc = "cleanup"
    /\ req.conversion_type = "merge_pdfs"
    /\ Len(input_paths) = 3
    /\ conv.work.errors = <<2>>
    /\ PresentInputs = {1, 3}
    /\ outcome.download_name = "merged_3_pdfs.pdf"

====
